---- MODULE Spec2Model ----
(***************************************************************************)
(* HeadSynth: the loop recorder / loop scheduler of src/js/looper.js       *)
(* (class Looper), the calibration of src/js/calibration.js (class         *)
(* Calibration), the head tracker of src/js/head-tracker.js (class         *)
(* HeadTracker) and the head-move handler of main.js as a state machine.   *)
(*                                                                         *)
(* Time is in milliseconds.  `clock` is the value Date.now() and           *)
(* performance.now() return (one clock, measured from the construction of  *)
(* the Looper).  Every public method of the classes and every button       *)
(* handler they install is one action; the requestAnimationFrame callback  *)
(* `animate` is the scheduler tick; every timer callback and every         *)
(* continuation of an async function after an await is one action.         *)
(*                                                                         *)
(* The specifications share the actions:                                   *)
(*   Spec        every operation of the looper with the default            *)
(*               quantization, called at the instants Times                *)
(*   SpecRec     recording: startRecording, recordEvent, stopRecording,    *)
(*               setQuantization and clear, called at the instants RecTimes*)
(*   SpecPlay    playback of a recorded one-track loop, the animation      *)
(*               frames arriving TickDeltas milliseconds apart             *)
(*   SpecCal     the calibration from the construction on: start, cancel,  *)
(*               skip and finish, the timers of the run, the tracker frames*)
(*   SpecRestart two calibration runs after start, cancel and start within *)
(*               the start delay                                           *)
(*   SpecProfile the profile installed from the samples of a complete run, *)
(*               by a skip and by setCalibrationData                       *)
(*   SpecPose    the tracker configured, then frames that show a face:     *)
(*               smoothing, normalization and the movement threshold       *)
(*   SpecTrack   the tracker started and stopped, frames with and without  *)
(*               a face, and the grace timer of the face loss              *)
(*   SpecNotes   the head moves handled by main.js: the note index and the *)
(*               notes played                                              *)
(*   SpecCalFair SpecCal with every pending timeout expiring               *)
(*   SpecSample  the sampling window of a pose: the frames of the tracker  *)
(*               and the ticks of the sampling interval                    *)
(*   SpecInstall the tracker started and stopped and profiles installed    *)
(*   SpecApp     the record, play, stop and clear buttons of main.js       *)
(*   SpecSkip    a calibration run and the skip button of its dialog       *)
(***************************************************************************)
EXTENDS Integers, Sequences, FiniteSets, TLC

VARIABLES
    tracks,             \* this.tracks: the LoopSet
    currentTrack,       \* this.currentTrack (NoTrack = null)
    isRecording,        \* this.isRecording
    isPlaying,          \* this.isPlaying
    quantizeEnabled,    \* this.quantizeEnabled
    quantizeResolution, \* this.quantizeResolution
    recordStartTime,    \* this.recordStartTime
    loopDuration,       \* this.loopDuration
    playbackStartTime,  \* this.playbackStartTime
    lastAnimationTime,  \* this.lastAnimationTime
    animationFrameId,   \* TRUE while a requested animation frame is pending
    trackCounter,       \* this.trackCounter
    clock,              \* Date.now() / performance.now()
    ret,                \* history: the last call and what it returned
    fired,              \* history: events passed to eventCallback by the last step
    lastElapsed,        \* history: elapsedTime computed by the last tick
    cycle,              \* history: loop traversal index of the last tick
    cycleFired,         \* history: events fired at least once in this traversal
    cycleDup,           \* history: events fired more than once in this traversal
    cycleMuted,         \* history: tracks muted or added during this traversal
    missed,             \* history: events not fired in the traversal that ended last,
                        \*          nor by the tick that ended it
    isCalibrating,      \* Calibration: this.isCalibrating
    cancelRequested,    \* this.cancelRequested
    calibrationComplete,\* this.calibrationComplete
    currentStep,        \* this.currentStep
    samples,            \* this.samples: pose name -> list of samples
    sampleTimer,        \* this.sampleTimer (NoTimer = null)
    stepTimeout,        \* this.stepTimeout (NoTimer = null)
    runs,               \* the runs begun by start(): where each one waits
    intervals,          \* the live setInterval timers of _calibratePosition
    timeouts,           \* the pending setTimeout timers of _calibratePosition
    calls,              \* history: callbacks of the application invoked by the last step
    lastTimer,          \* history: the timer whose callback was the last step
    isRunning,          \* HeadTracker: this.isRunning
    isCalibrated,       \* this.isCalibrated
    isFaceDetected,     \* this.isFaceDetected
    rawHeadData,        \* this.rawHeadData
    calibrationData,    \* this.calibrationData: the active profile
    lastHeadData,       \* this.lastHeadData: the smoothed pose
    lastNotifiedPosition, \* this.lastNotifiedPosition: the last emitted pose
    config,             \* this.config: sensitivityX/Y/Z and smoothingFactor
    movementThreshold,  \* this.movementThreshold
    faceDetectedTimer,  \* this.faceDetectedTimer (NoGrace = null)
    normalizedHeadData, \* history: the normalized pose computed by the last frame
    lastFrame,          \* history: what the last frame showed since start()
    noFaceSince,        \* history: when the frames began to show no face
    frames,             \* history: the frames handled since the construction
    appState,           \* main.js: appState, the fields the handlers use
    currentScale,       \* SynthEngine: this.currentScale
    played,             \* history: the notes passed to playNote by the last step
    moves               \* history: the head-move notifications handled

vars == <<tracks, currentTrack, isRecording, isPlaying, quantizeEnabled,
          quantizeResolution, recordStartTime, loopDuration, playbackStartTime,
          lastAnimationTime, animationFrameId, trackCounter, clock, ret, fired,
          lastElapsed, cycle, cycleFired, cycleDup, cycleMuted, missed,
          isCalibrating, cancelRequested, calibrationComplete, currentStep,
          samples, sampleTimer, stepTimeout, runs, intervals, timeouts, calls,
          lastTimer, isRunning, isCalibrated, isFaceDetected, rawHeadData,
          calibrationData, lastHeadData, lastNotifiedPosition, config,
          movementThreshold, faceDetectedTimer, normalizedHeadData, lastFrame,
          noFaceSince, frames, appState, currentScale, played, moves>>

looperVars == <<tracks, currentTrack, isRecording, isPlaying, quantizeEnabled,
                quantizeResolution, recordStartTime, loopDuration,
                playbackStartTime, lastAnimationTime, animationFrameId,
                trackCounter>>

cycleVars == <<lastElapsed, cycle, cycleFired, cycleDup, cycleMuted, missed>>

calibrationVars == <<isCalibrating, cancelRequested, calibrationComplete,
                     currentStep, samples, sampleTimer, stepTimeout, runs,
                     intervals, timeouts, calls, lastTimer>>

trackerVars == <<isRunning, isCalibrated, isFaceDetected, rawHeadData,
                 calibrationData>>

poseVars == <<lastHeadData, lastNotifiedPosition, config, movementThreshold,
              faceDetectedTimer, normalizedHeadData, lastFrame, noFaceSince,
              frames>>

appVars == <<appState, currentScale, played, moves>>

----------------------------------------------------------------------------
(* Program constants *)

maxTracks == 4
minimumLoopDuration == 2000
maximumLoopDuration == 20000
defaultQuantizeResolution == 10
earlyWindow == 15
lateWindow == 15
minSamplesPerStep == 10 \* calibration.js line 26
epsilon == 50000        \* 0.05 in millionths: the least range of a profile

(* Bounds of the model *)

MaxTrackCounter == 5    \* Spec: recordings started over the life of the looper
MaxRecordings == 2      \* SpecRec: recordings started over the life of the looper
MaxEvents == 1          \* events held by the looper at one time
MaxPlayPos == 2060      \* SpecPlay: milliseconds of playback followed
MaxRuns == 1            \* SpecCal: calls of Calibration.start that begin a run
MaxSamples == 10        \* SpecCal: samples held for one pose
MaxPoseFrames == 3      \* SpecPose: frames handled by the tracker
MaxTrackFrames == 5     \* SpecTrack: frames handled by the tracker
MaxClock == 2500        \* SpecTrack: milliseconds followed
MaxMoves == 4           \* SpecNotes: head-move notifications handled
MaxSampleFrames == 3    \* SpecSample: frames handled by the tracker
MaxAppRecordings == 3   \* SpecApp: recordings started with the record button
MaxInstallFrames == 2   \* SpecInstall: frames handled by the tracker

(* Instants at which the looper is called in Spec and in SpecRec *)
Times == {0, 24000}
RecTimes == {0, 1000, 2996, 25000}

(* SpecCal, SpecRestart: the raw head positions the tracker reports one after
   the other, in millionths.  Each coordinate is a multiple of 27720, so the
   mean of up to 12 samples is a whole number. *)
HeadPath == <<[x |-> 498960, y |-> 498960, z |-> 0],
              [x |-> 304920, y |-> 609840, z |-> 83160]>>

(* SpecPose: the raw poses of the frames, the profiles passed to
   setCalibrationData and the arguments of the configuration calls; a
   sensitivity in tenths, a smoothing factor in hundredths, the rest in
   millionths *)
RawPoses == {[x |-> 500000, y |-> 500000, z |-> 0],
             [x |-> 650000, y |-> 500000, z |-> 0],
             [x |-> 502000, y |-> 500000, z |-> 0],
             [x |-> 950000, y |-> 200000, z |-> -100000]}
PoseProfiles == {[centerX |-> 650000, rangeX |-> 10000],
                 [centerX |-> 500000, centerY |-> 500000, centerZ |-> 0,
                  rangeX |-> 300000, rangeY |-> 300000, rangeZ |-> 200000]}
SensitivityArgs == {[sensitivityX |-> 20, sensitivityY |-> 20, sensitivityZ |-> 20],
                    [sensitivityX |-> 30],
                    [sensitivityX |-> 0, sensitivityY |-> 5, sensitivityZ |-> 10]}
SmoothingArgs == {-10, 50, 120}
ThresholdArgs == {0, 50000, 500000}

(* SpecTrack: the raw poses of the frames that show a face, and the time
   between two instants at which the tracker is called *)
TrackPoses == {[x |-> 500000, y |-> 500000, z |-> 0],
               [x |-> 650000, y |-> 500000, z |-> 0]}
TickInterval == 250

(* SpecNotes: the x of the normalized poses passed to handleHeadMove *)
HeadMoves == {-1000000, -500000, 0, 142857, 142858, 999000, 1000000}

(* SpecProfile: the raw position of the head looking straight, how far from
   it (per axis) the head is in an extreme pose, and the profiles passed to
   HeadTracker.setCalibrationData, in millionths *)
CenterPosition == [x |-> 500000, y |-> 500000, z |-> 0]
Deviations == {0, 20000, 200000}
Profiles == {[rangeX |-> 0],
             [rangeX |-> -100000, rangeY |-> 49999, rangeZ |-> 50000],
             [centerX |-> 400000, centerY |-> 600000, centerZ |-> 100000,
              rangeX |-> 0, rangeY |-> 0, rangeZ |-> 0],
             [centerX |-> 500000, centerY |-> 500000, centerZ |-> 0,
              rangeX |-> 250000, rangeY |-> 250000, rangeZ |-> 100000]}

(* Arguments of setQuantization *)
Resolutions == {0, 3}

(* Distances between two animation frames in SpecPlay *)
TickDeltas == {5, 12, 40}

(* SpecPlay: the raw offsets of the events of the recorded loop, and the
   instant its recording was stopped *)
PlayRawTimes == {<<28>>, <<1994>>, <<28, 1994>>}
PlayStopTimes == {1996, 2040}

NoTrack == [id |-> -1, events |-> <<>>, duration |-> 0, muted |-> FALSE]
NaN == -1

Max(a, b) == IF a >= b THEN a ELSE b

----------------------------------------------------------------------------
(* Pure functions *)

\* Math.round(x / q) for integers x >= 0, q > 0: halves round up
MathRound(x, q) == (2 * x + q) \div (2 * q)

\* mutant: Math.round(relativeTime / resolution * resolution)
QuantizeUnrounded(relativeTime, enabled, resolution) == relativeTime

\* recordEvent, lines 150-153
Quantize(relativeTime, enabled, resolution) ==
    IF enabled /\ resolution > 0
    THEN MathRound(relativeTime, resolution) * resolution
    ELSE relativeTime

\* mutant: the minimum duration is not applied
ClampDurationNoMinimum(recordedDuration) ==
    IF recordedDuration > maximumLoopDuration THEN maximumLoopDuration
    ELSE recordedDuration

\* stopRecording, lines 102-111
ClampDuration(recordedDuration) ==
    IF recordedDuration < minimumLoopDuration THEN minimumLoopDuration
    ELSE IF recordedDuration > maximumLoopDuration THEN maximumLoopDuration
    ELSE recordedDuration

\* the event object recordEvent pushes (lines 156-164), without the payload
\* it copies from its argument
LoopEvent(now, start, enabled, resolution) ==
    [time |-> Quantize(now - start, enabled, resolution)]

\* animate, line 192: (Date.now() - playbackStartTime) % loopDuration
ElapsedTime(now, start, duration) ==
    IF duration = 0 THEN NaN ELSE (now - start) % duration

\* animate, line 199
Gate(deltaTime, elapsedTime, resolution) ==
    \/ deltaTime >= resolution
    \/ (elapsedTime # NaN /\ elapsedTime < resolution)

\* mutant: no wraparound clause
IsDueNoWraparound(time, elapsedTime, duration) ==
    /\ elapsedTime # NaN
    /\ time >= elapsedTime - earlyWindow
    /\ time <= elapsedTime + lateWindow

\* _processEventsAtTime, lines 244-248
IsDue(time, elapsedTime, duration) ==
    /\ elapsedTime # NaN
    /\ \/ (time >= elapsedTime - earlyWindow /\ time <= elapsedTime + lateWindow)
       \/ (time >= duration - earlyWindow /\ elapsedTime <= lateWindow)

\* the (track id, event index) pairs of a track list
EventKeys(ts) ==
    UNION {{<<ts[i].id, j>> : j \in DOMAIN ts[i].events} : i \in DOMAIN ts}

\* mutant: muted tracks are not skipped
processEventsOfAllTracks(ts, elapsedTime, duration) ==
    UNION {{<<ts[i].id, j>> : j \in {k \in DOMAIN ts[i].events :
                                     IsDue(ts[i].events[k].time, elapsedTime, duration)}}
           : i \in DOMAIN ts}

\* _processEventsAtTime: the events handed to eventCallback
processEventsAtTime(ts, elapsedTime, duration) ==
    UNION {{<<ts[i].id, j>> : j \in {k \in DOMAIN ts[i].events :
                                     IsDue(ts[i].events[k].time, elapsedTime, duration)}}
           : i \in {n \in DOMAIN ts : ~ts[n].muted}}

TrackIds(ts) == {ts[i].id : i \in DOMAIN ts}
MutedIds(ts) == {ts[i].id : i \in {n \in DOMAIN ts : ts[n].muted}}
UnmutedKeys(ts, exempt) == {k \in EventKeys(ts) : k[1] \notin exempt /\ k[1] \notin MutedIds(ts)}

RECURSIVE SumEvents(_)
SumEvents(ts) == IF ts = <<>> THEN 0 ELSE Len(Head(ts).events) + SumEvents(Tail(ts))
TotalEvents == SumEvents(tracks) + Len(currentTrack.events)

\* tracks.findIndex(t => t.id === trackId), 0 for -1
FindIndex(ts, trackId) ==
    IF \E i \in DOMAIN ts : ts[i].id = trackId
    THEN CHOOSE i \in DOMAIN ts : ts[i].id = trackId /\ \A j \in 1..(i - 1) : ts[j].id # trackId
    ELSE 0

\* tracks.splice(index, 1)
Splice(ts, index) == [i \in 1..(Len(ts) - 1) |-> IF i < index THEN ts[i] ELSE ts[i + 1]]

Called(op, ok) == [op |-> op, ok |-> ok]

----------------------------------------------------------------------------
(* Calibration: class Calibration of src/js/calibration.js, and the        *)
(* calibration profile kept by class HeadTracker of src/js/head-tracker.js *)
(* (the class that starts at line 228 of the file).                        *)
(*                                                                         *)
(* Positions and ranges are whole numbers of millionths: 0.05 is 50000.    *)
(* A run is one call of start() that got past its guard, with the promise  *)
(* chain and the async function _runCalibrationSequence it begins; runs[r] *)
(* holds where run r is waiting.  A timer is named by the run and the step *)
(* that created it: <<r, i>>.                                              *)

\* this.steps, lines 44-52 (the names)
steps == <<"center", "up", "down", "left", "right", "tiltLeft", "tiltRight">>

\* this.steps[i].name, i counted from 0 as in the code
StepName(i) == steps[i + 1]

\* the value null of this.sampleTimer and this.stepTimeout
NoTimer == <<-1, -1>>

Abs(a) == IF a < 0 THEN -a ELSE a

\* the fields of a calibration profile
ProfileKeys == {"centerX", "centerY", "centerZ", "rangeX", "rangeY", "rangeZ"}

\* this.calibrationData of a new HeadTracker, head-tracker.js lines 253-260
initialCalibrationData ==
    [centerX |-> 0, centerY |-> 0, centerZ |-> 0,
     rangeX |-> 300000, rangeY |-> 300000, rangeZ |-> 200000]

\* HeadTracker._applyDefaultCalibration, head-tracker.js lines 456-469
defaultCalibrationData ==
    [centerX |-> 500000, centerY |-> 500000, centerZ |-> 0,
     rangeX |-> 300000, rangeY |-> 300000, rangeZ |-> 200000]

\* defaultCalibration of Calibration.skipCalibration, lines 152-159
defaultCalibration ==
    [centerX |-> 500000, centerY |-> 500000, centerZ |-> 0,
     rangeX |-> 200000, rangeY |-> 200000, rangeZ |-> 150000]

\* mutant of setCalibrationData: the ranges are stored as they were passed
setCalibrationDataUnfloored(old, new) ==
    [k \in ProfileKeys |-> IF k \in DOMAIN new THEN new[k] ELSE old[k]]

\* HeadTracker.setCalibrationData, head-tracker.js lines 437-451: the profile
\* that results from passing `new` (any subset of the fields) while `old` is active
setCalibrationData(old, new) ==
    LET merged == [k \in ProfileKeys |-> IF k \in DOMAIN new THEN new[k] ELSE old[k]]
    IN  [merged EXCEPT !.rangeX = Max(epsilon, @),
                       !.rangeY = Max(epsilon, @),
                       !.rangeZ = Max(epsilon, @)]

\* samples.reduce(...), lines 339-346: the sum of one axis of a sample list
RECURSIVE SumAxis(_, _)
SumAxis(list, axis) ==
    IF list = <<>> THEN 0 ELSE list[1][axis] + SumAxis(Tail(list), axis)

\* sum / samples.length, lines 347-351.  The sample lists of the
\* specifications have sums that are multiples of their lengths (HeadPath,
\* Held), so the quotient is the exact mean.
Centroid(list) ==
    [x |-> SumAxis(list, "x") \div Len(list),
     y |-> SumAxis(list, "y") \div Len(list),
     z |-> SumAxis(list, "z") \div Len(list)]

\* lines 335-352: the positions that got an average
Positions(smp) == {p \in DOMAIN smp : smp[p] # <<>>}

\* mutant of _processCalibrationData: the range is the distance, not doubled
processCalibrationDataHalfRange(smp) ==
    LET c == Centroid(smp["center"]) IN
    [centerX |-> c.x, centerY |-> c.y, centerZ |-> c.z,
     rangeX |-> Max(epsilon, Max(Abs(Centroid(smp["left"]).x - c.x),
                                 Abs(Centroid(smp["right"]).x - c.x))),
     rangeY |-> Max(epsilon, Max(Abs(Centroid(smp["up"]).y - c.y),
                                 Abs(Centroid(smp["down"]).y - c.y))),
     rangeZ |-> Max(epsilon, Max(Abs(Centroid(smp["tiltLeft"]).z - c.z),
                                 Abs(Centroid(smp["tiltRight"]).z - c.z)))]

\* Calibration._processCalibrationData, lines 331-391, for sample lists of
\* which none is empty (with an empty list positions.<name> is undefined and
\* the method throws a TypeError: see finishCalibration)
processCalibrationData(smp) ==
    LET c == Centroid(smp["center"]) IN
    [centerX |-> c.x, centerY |-> c.y, centerZ |-> c.z,
     rangeX |-> Max(epsilon, Max(Abs(Centroid(smp["left"]).x - c.x),
                                 Abs(Centroid(smp["right"]).x - c.x)) * 2),
     rangeY |-> Max(epsilon, Max(Abs(Centroid(smp["up"]).y - c.y),
                                 Abs(Centroid(smp["down"]).y - c.y)) * 2),
     rangeZ |-> Max(epsilon, Max(Abs(Centroid(smp["tiltLeft"]).z - c.z),
                                 Abs(Centroid(smp["tiltRight"]).z - c.z)) * 2)]

\* a callback of the application invoked by a step
Callback(cb, arg, run) == [cb |-> cb, arg |-> arg, run |-> run]

\* the samples of a run that has collected nothing, lines 33-41 and 103-105
NoSamples == [p \in {steps[k] : k \in DOMAIN steps} |-> <<>>]

\* the runs that have not returned
Alive(r) == runs[r].pc \in {"starting", "delay", "wait", "sampling", "complete"}

\* constructors: Calibration lines 7-85, HeadTracker lines 232-292
InitCalibration ==
    /\ isCalibrating = FALSE
    /\ cancelRequested = FALSE
    /\ calibrationComplete = FALSE
    /\ currentStep = 0
    /\ samples = NoSamples
    /\ sampleTimer = NoTimer
    /\ stepTimeout = NoTimer
    /\ runs = <<>>
    /\ intervals = {}
    /\ timeouts = {}
    /\ calls = <<>>
    /\ lastTimer = NoTimer
    /\ isRunning = FALSE
    /\ isCalibrated = FALSE
    /\ isFaceDetected = FALSE
    /\ rawHeadData = [x |-> 0, y |-> 0, z |-> 0]
    /\ calibrationData = initialCalibrationData

----------------------------------------------------------------------------
(* The pose pipeline of class HeadTracker, src/js/head-tracker.js from line *)
(* 228 on.  Coordinates, centers, ranges and the movement threshold are in  *)
(* millionths, a sensitivity is in tenths and the smoothing factor in       *)
(* hundredths.  The confidence of a pose is copied through unchanged and is *)
(* left out.  Every number is finite: NaN is outside the model.             *)

Unit == 1000000         \* 1.0 of a coordinate
noFaceTimeout == 1000   \* head-tracker.js line 287
Axes == {"x", "y", "z"}

Min(a, b) == IF a <= b THEN a ELSE b

\* a / b with the fraction dropped, b > 0
Trunc(a, b) == IF a >= 0 THEN a \div b ELSE -((-a) \div b)

\* Math.max(lo, Math.min(hi, v))
Clamp(lo, hi, v) == Max(lo, Min(hi, v))

\* { x: 0, y: 0, z: 0 }, lines 248 and 283
Origin == [x |-> 0, y |-> 0, z |-> 0]

\* a lastHeadData that is not an object; the constructor never leaves one
NoHeadData == [none |-> TRUE]

\* this.config of a new HeadTracker, lines 263-275
initialConfig ==
    [sensitivityX |-> 10, sensitivityY |-> 10, sensitivityZ |-> 10,
     smoothingFactor |-> 70]

\* this.movementThreshold of a new HeadTracker, line 282
initialMovementThreshold == 10000

\* this.faceDetectedTimer = null, line 286.  A handle is the time at which
\* the timeout expires and whether it is still pending: clearTimeout leaves
\* the handle in the field, no longer pending.
NoGrace == [due |-> -1, pending |-> FALSE]

\* HeadTracker.setSensitivity, lines 318-332: the fields passed are stored
\* as they are, the others keep their values
setSensitivity(cfg, sensitivity) ==
    [k \in DOMAIN cfg |-> IF k \in DOMAIN sensitivity THEN sensitivity[k] ELSE cfg[k]]

\* HeadTracker.setSmoothingFactor, lines 338-340
setSmoothingFactor(cfg, factor) ==
    [cfg EXCEPT !.smoothingFactor = Max(0, Min(95, factor))]

\* HeadTracker.setMovementThreshold, lines 736-738
setMovementThreshold(threshold) == Max(1000, Min(100000, threshold))

\* HeadTracker._smoothHeadData, lines 655-669: the smoothed pose after the
\* raw pose headData, carried to six decimals
smoothHeadData(last, headData, smooth) ==
    IF last # NoHeadData
      THEN [a \in Axes |-> Trunc(smooth * last[a] + (100 - smooth) * headData[a], 100)]
      ELSE headData

\* (value - center) / range, carried to three decimals; range > 0
Quotient(value, center, range) == Trunc((value - center) * 1000, range)

\* mutant of applyCalibration: the values are not clamped
applyCalibrationUnclamped(headData, cal, cfg) ==
    [x |-> Quotient(headData.x, cal.centerX, cal.rangeX) * cfg.sensitivityX * 100,
     y |-> Quotient(headData.y, cal.centerY, cal.rangeY) * cfg.sensitivityY * 100,
     z |-> Quotient(headData.z, cal.centerZ, cal.rangeZ) * cfg.sensitivityZ * 100]

\* HeadTracker._applyCalibration, lines 676-698: the normalized pose of the
\* smoothed pose headData under the profile cal and the sensitivities of cfg
applyCalibration(headData, cal, cfg) ==
    LET calibrated ==
          [x |-> Quotient(headData.x, cal.centerX, cal.rangeX) * cfg.sensitivityX * 100,
           y |-> Quotient(headData.y, cal.centerY, cal.rangeY) * cfg.sensitivityY * 100,
           z |-> Quotient(headData.z, cal.centerZ, cal.rangeZ) * cfg.sensitivityZ * 100]
    IN  [a \in Axes |-> Clamp(-Unit, Unit, calibrated[a])]

\* mutant of hasMovedSignificantly: every frame counts as a movement
hasMovedAlways(position, last, threshold) == TRUE

\* HeadTracker._hasMovedSignificantly, lines 705-714
hasMovedSignificantly(position, last, threshold) ==
    \/ Abs(position.x - last.x) > threshold
    \/ Abs(position.y - last.y) > threshold
    \/ Abs(position.z - last.z) > threshold

(* main.js (src/unnamed/part_001) and class SynthEngine *)

\* SynthEngine: this.scales, synth-engine.js lines 14-20, by their lengths
scales == [major |-> 7, minor |-> 7, pentatonic |-> 5, blues |-> 6, chromatic |-> 12]

\* mutant of mapHeadXToNoteIndex: the index is not clamped
mapHeadXToNoteIndexUnclamped(x, scaleLength) ==
    ((x + Unit) * scaleLength) \div (2 * Unit)

\* mapHeadXToNoteIndex, part_001 lines 646-652, for a scale of scaleLength
\* notes: Math.floor(((x + 1) / 2) * scaleLength), clamped
mapHeadXToNoteIndex(x, scaleLength) ==
    LET index == ((x + Unit) * scaleLength) \div (2 * Unit)
    IN  Max(0, Min(scaleLength - 1, index))

\* appState of main.js, part_001 lines 76-98, by the fields handleHeadMove
\* and the loop buttons read
initialAppState ==
    [isRunning |-> FALSE, isCalibrating |-> FALSE, isRecording |-> FALSE,
     isPlaying |-> FALSE, currentNoteIndex |-> -1]

\* constructor of HeadTracker, lines 232-292; appState and SynthEngine as
\* constructed
InitPose ==
    /\ lastHeadData = Origin
    /\ lastNotifiedPosition = Origin
    /\ config = initialConfig
    /\ movementThreshold = initialMovementThreshold
    /\ faceDetectedTimer = NoGrace
    /\ normalizedHeadData = Origin
    /\ lastFrame = "none"
    /\ noFaceSince = -1
    /\ frames = 0
    /\ appState = initialAppState
    /\ currentScale = "major"
    /\ played = <<>>
    /\ moves = 0

----------------------------------------------------------------------------
(* Initial states *)

\* constructor of Looper, lines 7-50
InitLooper ==
    /\ tracks = <<>>
    /\ currentTrack = NoTrack
    /\ isRecording = FALSE
    /\ isPlaying = FALSE
    /\ quantizeEnabled = TRUE
    /\ quantizeResolution = defaultQuantizeResolution
    /\ recordStartTime = 0
    /\ loopDuration = 0
    /\ playbackStartTime = 0
    /\ lastAnimationTime = 0
    /\ animationFrameId = FALSE
    /\ trackCounter = 0
    /\ clock = 0
    /\ fired = {}
    /\ lastElapsed = NaN
    /\ cycle = 0
    /\ cycleFired = {}
    /\ cycleDup = {}
    /\ cycleMuted = {}
    /\ missed = {}

\* the application after init(): a Looper, a HeadTracker and a Calibration
Init ==
    /\ InitLooper
    /\ InitCalibration
    /\ InitPose
    /\ ret = Called("new", TRUE)

----------------------------------------------------------------------------
(* The clock *)

\* time passes between two calls: the next call is made at an instant of T
Advance(T) ==
    /\ \E t \in T : t > clock /\ clock' = t
    /\ ret' = Called("advance", TRUE)
    /\ fired' = {}
    /\ UNCHANGED <<looperVars, cycleVars>>

----------------------------------------------------------------------------
(* Recording *)

\* what startRecording() does when it starts a recording, lines 65-88
StartsRecording ==
    /\ currentTrack' = [id |-> trackCounter, events |-> <<>>, duration |-> 0,
                        muted |-> FALSE]
    /\ trackCounter' = trackCounter + 1
    /\ recordStartTime' = clock
    /\ isRecording' = TRUE
    /\ UNCHANGED <<tracks, isPlaying, quantizeEnabled, quantizeResolution,
                   loopDuration, playbackStartTime, lastAnimationTime,
                   animationFrameId, clock, cycleVars>>

\* mutant: no check that a recording is in progress
startRecordingAgain ==
    /\ ret' = Called("startRecording", ~(Len(tracks) >= maxTracks))
    /\ fired' = {}
    /\ IF Len(tracks) >= maxTracks
       THEN UNCHANGED <<looperVars, clock, cycleVars>>
       ELSE StartsRecording

\* mutant: the capacity check is tracks.length > maxTracks
startRecordingOverCapacity ==
    /\ ret' = Called("startRecording", ~(isRecording \/ Len(tracks) > maxTracks))
    /\ fired' = {}
    /\ IF isRecording \/ Len(tracks) > maxTracks
       THEN UNCHANGED <<looperVars, clock, cycleVars>>
       ELSE StartsRecording

\* startRecording(), lines 56-89
startRecording ==
    /\ ret' = Called("startRecording", ~(isRecording \/ Len(tracks) >= maxTracks))
    /\ fired' = {}
    /\ IF isRecording \/ Len(tracks) >= maxTracks
       THEN UNCHANGED <<looperVars, clock, cycleVars>>
       ELSE StartsRecording

\* startRecording() while fewer than limit recordings were started, and every
\* call that fails
startRecordingWithin(limit) ==
    /\ (isRecording \/ Len(tracks) >= maxTracks \/ trackCounter < limit)
    /\ startRecording

\* stopRecording(), lines 95-136
stopRecording ==
    /\ ret' = Called("stopRecording", isRecording)
    /\ fired' = {}
    /\ IF ~isRecording
       THEN UNCHANGED <<looperVars, clock, cycleVars>>
       ELSE /\ loopDuration' = ClampDuration(clock - recordStartTime)
            /\ tracks' = Append(tracks, [currentTrack EXCEPT !.duration = loopDuration'])
            /\ isRecording' = FALSE
            /\ currentTrack' = NoTrack
            /\ UNCHANGED <<isPlaying, quantizeEnabled, quantizeResolution,
                           recordStartTime, playbackStartTime, lastAnimationTime,
                           animationFrameId, trackCounter, clock, cycleVars>>

\* mutant: without a recording the event goes to the newest track
recordEventUnguarded ==
    /\ ret' = Called("recordEvent", isRecording /\ currentTrack # NoTrack)
    /\ fired' = {}
    /\ TotalEvents < MaxEvents
    /\ IF ~isRecording \/ currentTrack = NoTrack
       THEN /\ tracks # <<>>
            /\ tracks' = [tracks EXCEPT ![Len(tracks)].events =
                            Append(@, LoopEvent(clock, recordStartTime, quantizeEnabled,
                                                quantizeResolution))]
            /\ UNCHANGED <<currentTrack, isRecording, isPlaying, quantizeEnabled,
                           quantizeResolution, recordStartTime, loopDuration,
                           playbackStartTime, lastAnimationTime, animationFrameId,
                           trackCounter, clock, cycleVars>>
       ELSE /\ currentTrack' =
                 [currentTrack EXCEPT !.events =
                    Append(@, LoopEvent(clock, recordStartTime, quantizeEnabled,
                                        quantizeResolution))]
            /\ UNCHANGED <<tracks, isRecording, isPlaying, quantizeEnabled,
                           quantizeResolution, recordStartTime, loopDuration,
                           playbackStartTime, lastAnimationTime, animationFrameId,
                           trackCounter, clock, cycleVars>>

\* recordEvent(event), lines 142-168
recordEvent ==
    /\ ret' = Called("recordEvent", isRecording /\ currentTrack # NoTrack)
    /\ fired' = {}
    /\ IF ~isRecording \/ currentTrack = NoTrack
       THEN UNCHANGED <<looperVars, clock, cycleVars>>
       ELSE /\ TotalEvents < MaxEvents
            /\ currentTrack' =
                 [currentTrack EXCEPT !.events =
                    Append(@, LoopEvent(clock, recordStartTime, quantizeEnabled,
                                        quantizeResolution))]
            /\ UNCHANGED <<tracks, isRecording, isPlaying, quantizeEnabled,
                           quantizeResolution, recordStartTime, loopDuration,
                           playbackStartTime, lastAnimationTime, animationFrameId,
                           trackCounter, clock, cycleVars>>

\* setQuantization(enabled, resolution), lines 325-328
setQuantization ==
    /\ \E enabled \in BOOLEAN, resolution \in Resolutions :
          /\ quantizeEnabled' = enabled
          /\ quantizeResolution' = Max(1, resolution)
    /\ ret' = Called("setQuantization", TRUE)
    /\ fired' = {}
    /\ UNCHANGED <<tracks, currentTrack, isRecording, isPlaying, recordStartTime,
                   loopDuration, playbackStartTime, lastAnimationTime,
                   animationFrameId, trackCounter, clock, cycleVars>>

----------------------------------------------------------------------------
(* Playback *)

\* play(eventCallback), lines 175-223, called with a callback
play ==
    /\ ret' = Called("play", ~(isPlaying \/ Len(tracks) = 0))
    /\ fired' = {}
    /\ IF isPlaying \/ Len(tracks) = 0
       THEN UNCHANGED <<looperVars, clock, cycleVars>>
       ELSE /\ isPlaying' = TRUE
            /\ playbackStartTime' = clock
            /\ lastAnimationTime' = clock
            /\ animationFrameId' = TRUE
            /\ lastElapsed' = NaN
            /\ cycle' = 0
            /\ cycleFired' = {}
            /\ cycleDup' = {}
            /\ cycleMuted' = {}
            /\ missed' = {}
            /\ UNCHANGED <<tracks, currentTrack, isRecording, quantizeEnabled,
                           quantizeResolution, recordStartTime, loopDuration,
                           trackCounter, clock>>

\* mutant of animate: the track being recorded is processed with the stored ones
animateRecordingToo(now) ==
    LET elapsedTime == ElapsedTime(now, playbackStartTime, loopDuration)
        deltaTime == now - lastAnimationTime
        open == Gate(deltaTime, elapsedTime, quantizeResolution)
        all == IF isRecording THEN Append(tracks, currentTrack) ELSE tracks
    IN  /\ animationFrameId
        /\ now >= clock
        /\ clock' = now
        /\ lastAnimationTime' = now
        /\ animationFrameId' = isPlaying
        /\ ret' = Called("animate", open)
        /\ fired' = IF open THEN processEventsAtTime(all, elapsedTime, loopDuration)
                            ELSE {}
        /\ UNCHANGED <<tracks, currentTrack, isRecording, isPlaying, quantizeEnabled,
                       quantizeResolution, recordStartTime, loopDuration,
                       playbackStartTime, trackCounter>>

\* animate(currentTime), lines 190-211: the animation frame requested by play
\* or by the previous frame runs at the instant now
animate(now) ==
    LET elapsedTime == ElapsedTime(now, playbackStartTime, loopDuration)
        deltaTime == now - lastAnimationTime
        open == Gate(deltaTime, elapsedTime, quantizeResolution)
    IN  /\ animationFrameId
        /\ now >= clock
        /\ clock' = now
        /\ lastAnimationTime' = now
        /\ animationFrameId' = isPlaying
        /\ ret' = Called("animate", open)
        /\ fired' = IF open THEN processEventsAtTime(tracks, elapsedTime, loopDuration)
                            ELSE {}
        /\ UNCHANGED <<tracks, currentTrack, isRecording, isPlaying, quantizeEnabled,
                       quantizeResolution, recordStartTime, loopDuration,
                       playbackStartTime, trackCounter>>

\* history of the loop traversals: a traversal ends when the traversal index
\* (now - playbackStartTime) div loopDuration changes; an event fired by the
\* tick that ends a traversal counts for the traversal it ends and for the
\* one it begins
Traverse(now) ==
    LET newCycle == IF loopDuration = 0 THEN NaN
                    ELSE (now - playbackStartTime) \div loopDuration
        wrapped == newCycle # cycle
        before == IF wrapped THEN {} ELSE cycleFired
    IN  /\ lastElapsed' = ElapsedTime(now, playbackStartTime, loopDuration)
        /\ cycle' = newCycle
        /\ cycleFired' = before \cup fired'
        /\ cycleDup' = (IF wrapped THEN {} ELSE cycleDup) \cup (before \cap fired')
        /\ cycleMuted' = (IF wrapped THEN {} ELSE cycleMuted) \cup MutedIds(tracks)
        /\ missed' = IF wrapped
                     THEN (UnmutedKeys(tracks, cycleMuted) \ cycleFired) \ fired'
                     ELSE missed

\* Spec: a frame runs at the current instant
animateNow == animate(clock) /\ UNCHANGED cycleVars

\* SpecPlay: a frame runs d milliseconds after the previous step
animateAfter ==
    \E d \in TickDeltas :
        /\ clock + d - playbackStartTime <= MaxPlayPos
        /\ animate(clock + d)
        /\ Traverse(clock + d)

\* mutant: stop() does not cancel the pending animation frame
stopKeepsFrame ==
    /\ ret' = Called("stop", isPlaying)
    /\ fired' = {}
    /\ IF ~isPlaying
       THEN UNCHANGED <<looperVars, clock, cycleVars>>
       ELSE /\ isPlaying' = FALSE
            /\ UNCHANGED <<tracks, currentTrack, isRecording, quantizeEnabled,
                           quantizeResolution, recordStartTime, loopDuration,
                           playbackStartTime, lastAnimationTime, animationFrameId,
                           trackCounter, clock, cycleVars>>

\* stop(), lines 259-279
stop ==
    /\ ret' = Called("stop", isPlaying)
    /\ fired' = {}
    /\ IF ~isPlaying
       THEN UNCHANGED <<looperVars, clock, cycleVars>>
       ELSE /\ animationFrameId' = FALSE
            /\ isPlaying' = FALSE
            /\ UNCHANGED <<tracks, currentTrack, isRecording, quantizeEnabled,
                           quantizeResolution, recordStartTime, loopDuration,
                           playbackStartTime, lastAnimationTime, trackCounter,
                           clock, cycleVars>>

\* mutant: clear() does not stop a recording in progress
clearKeepsRecording ==
    /\ ret' = Called("clear", isPlaying /\ isRecording)
    /\ fired' = {}
    /\ animationFrameId' = IF isPlaying THEN FALSE ELSE animationFrameId
    /\ isPlaying' = FALSE
    /\ tracks' = <<>>
    /\ currentTrack' = NoTrack
    /\ loopDuration' = 0
    /\ UNCHANGED <<isRecording, quantizeEnabled, quantizeResolution, recordStartTime,
                   playbackStartTime, lastAnimationTime, trackCounter, clock,
                   cycleVars>>

\* mutant: clear() leaves the loop duration of the discarded tracks
clearKeepsDuration ==
    /\ ret' = Called("clear", isPlaying /\ isRecording)
    /\ fired' = {}
    /\ animationFrameId' = IF isPlaying THEN FALSE ELSE animationFrameId
    /\ isPlaying' = FALSE
    /\ isRecording' = FALSE
    /\ tracks' = <<>>
    /\ currentTrack' = NoTrack
    /\ loopDuration' = IF isRecording THEN ClampDuration(clock - recordStartTime)
                                      ELSE loopDuration
    /\ UNCHANGED <<quantizeEnabled, quantizeResolution, recordStartTime,
                   playbackStartTime, lastAnimationTime, trackCounter, clock,
                   cycleVars>>

\* clear(), lines 284-310: stop(), then stopRecording() when recording, then
\* the track list, currentTrack and loopDuration are reset
clear ==
    /\ ret' = Called("clear", isPlaying /\ isRecording)
    /\ fired' = {}
    /\ animationFrameId' = IF isPlaying THEN FALSE ELSE animationFrameId
    /\ isPlaying' = FALSE
    /\ isRecording' = FALSE
    /\ tracks' = <<>>
    /\ currentTrack' = NoTrack
    /\ loopDuration' = 0
    /\ UNCHANGED <<quantizeEnabled, quantizeResolution, recordStartTime,
                   playbackStartTime, lastAnimationTime, trackCounter, clock,
                   cycleVars>>

----------------------------------------------------------------------------
(* Track buttons *)

\* the tracks that have a row with a mute and a delete button: the row is
\* made by startRecording (_createTrackElement, lines 367-423)
Rows == TrackIds(tracks) \cup (IF currentTrack = NoTrack THEN {} ELSE {currentTrack.id})

\* mutant: the toggle rebuilds the track without its events
toggleTrackMuteDropsEvents ==
    \E trackId \in Rows :
        LET trackIndex == FindIndex(tracks, trackId) IN
        /\ ret' = Called("toggleTrackMute", trackIndex # 0)
        /\ fired' = {}
        /\ IF trackIndex = 0
           THEN UNCHANGED <<looperVars, clock, cycleVars>>
           ELSE /\ tracks' = [tracks EXCEPT ![trackIndex].muted = ~@,
                                            ![trackIndex].events = <<>>]
                /\ UNCHANGED <<currentTrack, isRecording, isPlaying, quantizeEnabled,
                               quantizeResolution, recordStartTime, loopDuration,
                               playbackStartTime, lastAnimationTime, animationFrameId,
                               trackCounter, clock, cycleVars>>

\* _toggleTrackMute(trackId), lines 522-547
toggleTrackMute ==
    \E trackId \in Rows :
        LET trackIndex == FindIndex(tracks, trackId) IN
        /\ ret' = Called("toggleTrackMute", trackIndex # 0)
        /\ fired' = {}
        /\ IF trackIndex = 0
           THEN UNCHANGED <<looperVars, clock, cycleVars>>
           ELSE /\ tracks' = [tracks EXCEPT ![trackIndex].muted = ~@]
                /\ UNCHANGED <<currentTrack, isRecording, isPlaying, quantizeEnabled,
                               quantizeResolution, recordStartTime, loopDuration,
                               playbackStartTime, lastAnimationTime, animationFrameId,
                               trackCounter, clock, cycleVars>>

\* _deleteTrack(trackId), lines 553-575
deleteTrack ==
    \E trackId \in Rows :
        LET trackIndex == FindIndex(tracks, trackId) IN
        /\ ret' = Called("deleteTrack", trackIndex # 0)
        /\ fired' = {}
        /\ IF trackIndex = 0
           THEN UNCHANGED <<looperVars, clock, cycleVars>>
           ELSE /\ tracks' = Splice(tracks, trackIndex)
                /\ loopDuration' = IF Len(tracks') = 0 THEN 0 ELSE loopDuration
                /\ UNCHANGED <<currentTrack, isRecording, isPlaying, quantizeEnabled,
                               quantizeResolution, recordStartTime, playbackStartTime,
                               lastAnimationTime, animationFrameId, trackCounter,
                               clock, cycleVars>>

----------------------------------------------------------------------------
(* The head tracker's frames *)

\* how far along HeadPath the head is (0: no frame with a face yet)
PathIndex(pos) ==
    IF \E k \in DOMAIN HeadPath : HeadPath[k] = pos
      THEN CHOOSE k \in DOMAIN HeadPath : HeadPath[k] = pos
      ELSE 0

\* HeadTracker._handleResults with a face in the frame, head-tracker.js lines
\* 475-519 and 525-541, by what the calibration reads of it: rawHeadData and
\* isFaceDetected (the action `frame` has the smoothed and the normalized
\* pose).  The head moves along HeadPath, and it is held still while a
\* sampling interval is live: it moves between the windows.
handleResults ==
    /\ isRunning
    /\ \E k \in DOMAIN HeadPath :
          /\ k >= PathIndex(rawHeadData)
          /\ k = PathIndex(rawHeadData) \/ intervals = {}
          /\ rawHeadData' = HeadPath[k]
    /\ isFaceDetected' = TRUE
    /\ ret' = Called("_handleResults", TRUE)
    /\ calls' = <<>>
    /\ lastTimer' = NoTimer
    /\ UNCHANGED <<isCalibrating, cancelRequested, calibrationComplete, currentStep,
                   samples, sampleTimer, stepTimeout, runs, intervals, timeouts,
                   isRunning, isCalibrated, calibrationData>>

\* the faceDetectedTimer set by _updateFaceDetectionStatus expires,
\* head-tracker.js lines 542-557: no face for noFaceTimeout milliseconds
faceLost ==
    /\ isRunning
    /\ isFaceDetected
    /\ isFaceDetected' = FALSE
    /\ ret' = Called("_handleResults", FALSE)
    /\ calls' = <<>>
    /\ lastTimer' = NoTimer
    /\ UNCHANGED <<isCalibrating, cancelRequested, calibrationComplete, currentStep,
                   samples, sampleTimer, stepTimeout, runs, intervals, timeouts,
                   isRunning, isCalibrated, rawHeadData, calibrationData>>

\* a call of HeadTracker.setCalibrationData, head-tracker.js lines 437-451
callSetCalibrationData(new) ==
    /\ calibrationData' = setCalibrationData(calibrationData, new)
    /\ isCalibrated' = TRUE
    /\ ret' = Called("setCalibrationData", TRUE)
    /\ calls' = <<>>
    /\ lastTimer' = NoTimer
    /\ UNCHANGED <<isCalibrating, cancelRequested, calibrationComplete, currentStep,
                   samples, sampleTimer, stepTimeout, runs, intervals, timeouts,
                   isRunning, isFaceDetected, rawHeadData>>

----------------------------------------------------------------------------
(* The calibration run *)

\* Calibration.start, lines 90-130, with _startHeadTracker, lines 198-202:
\* with the tracker running the promise is resolved at once and the start
\* delay is set; otherwise the run awaits HeadTracker.start
start ==
    /\ isCalibrating \/ Len(runs) < MaxRuns
    /\ ret' = Called("start", ~isCalibrating)
    /\ calls' = <<>>
    /\ lastTimer' = NoTimer
    /\ IF isCalibrating
         THEN UNCHANGED <<isCalibrating, cancelRequested, calibrationComplete,
                          currentStep, samples, runs>>
         ELSE /\ isCalibrating' = TRUE
              /\ cancelRequested' = FALSE
              /\ calibrationComplete' = FALSE
              /\ currentStep' = 0
              /\ samples' = NoSamples
              /\ runs' = Append(runs, [pc |-> IF isRunning THEN "delay" ELSE "starting",
                                       i |-> 0,
                                       cancelled |-> FALSE])
    /\ UNCHANGED <<sampleTimer, stepTimeout, intervals, timeouts,
                   isRunning, isCalibrated, isFaceDetected, rawHeadData,
                   calibrationData>>

\* HeadTracker.start succeeds, head-tracker.js lines 382-391, and the .then
\* of Calibration.start sets the start delay, lines 113-118
trackerStarted(r) ==
    /\ runs[r].pc = "starting"
    /\ isRunning' = TRUE
    /\ isCalibrated' = TRUE
    /\ calibrationData' = IF isCalibrated THEN calibrationData
                                          ELSE defaultCalibrationData
    /\ runs' = [runs EXCEPT ![r].pc = "delay"]
    /\ ret' = Called("headTracker.start", TRUE)
    /\ calls' = <<>>
    /\ lastTimer' = NoTimer
    /\ UNCHANGED <<isCalibrating, cancelRequested, calibrationComplete, currentStep,
                   samples, sampleTimer, stepTimeout, intervals, timeouts,
                   isFaceDetected, rawHeadData>>

\* HeadTracker.start throws, head-tracker.js lines 393-396, and the .catch
\* of Calibration.start reports it, lines 120-129
trackerFailed(r) ==
    /\ runs[r].pc = "starting"
    /\ ~isRunning
    /\ runs' = [runs EXCEPT ![r].pc = "failed"]
    /\ calls' = <<Callback("onCalibrationFailed", "camera", r)>>
    /\ isCalibrating' = FALSE
    /\ ret' = Called("headTracker.start", FALSE)
    /\ lastTimer' = NoTimer
    /\ UNCHANGED <<cancelRequested, calibrationComplete, currentStep, samples,
                   sampleTimer, stepTimeout, intervals, timeouts, isRunning,
                   isCalibrated, isFaceDetected, rawHeadData, calibrationData>>

\* mutant of calibratePosition: the step timeout is not set
calibratePositionNoTimeout(r, i) ==
    /\ sampleTimer' = <<r, i>>
    /\ stepTimeout' = NoTimer
    /\ intervals' = intervals \cup {<<r, i>>}
    /\ timeouts' = timeouts
    /\ runs' = [runs EXCEPT ![r].pc = "sampling", ![r].i = i]

\* Calibration._calibratePosition, lines 273-296, up to the return of the
\* promise: run r starts the sampling interval and the step timeout of step i
calibratePosition(r, i) ==
    /\ sampleTimer' = <<r, i>>
    /\ stepTimeout' = <<r, i>>
    /\ intervals' = intervals \cup {<<r, i>>}
    /\ timeouts' = timeouts \cup {<<r, i>>}
    /\ runs' = [runs EXCEPT ![r].pc = "sampling", ![r].i = i]

\* the start delay of run r expires, line 116: _runCalibrationSequence,
\* lines 207-243, from its beginning to the first await
startDelayElapsed(r) ==
    /\ runs[r].pc = "delay"
    /\ ret' = Called("_runCalibrationSequence", ~cancelRequested)
    /\ calls' = <<>>
    /\ lastTimer' = NoTimer
    /\ IF cancelRequested
         THEN /\ runs' = [runs EXCEPT ![r].pc = "returned"]
              /\ UNCHANGED <<currentStep, sampleTimer, stepTimeout, intervals, timeouts>>
         ELSE /\ currentStep' = 0
              /\ calibratePosition(r, 0)
    /\ UNCHANGED <<isCalibrating, cancelRequested, calibrationComplete, samples,
                   isRunning, isCalibrated, isFaceDetected, rawHeadData,
                   calibrationData>>

\* the pause of run r before step i expires, _wait lines 499-503:
\* _runCalibrationSequence goes on from line 229 to the next await
waitElapsed(r) ==
    /\ runs[r].pc = "wait"
    /\ ret' = Called("_wait", ~cancelRequested)
    /\ calls' = <<>>
    /\ lastTimer' = NoTimer
    /\ IF cancelRequested
         THEN /\ runs' = [runs EXCEPT ![r].pc = "returned"]
              /\ UNCHANGED <<sampleTimer, stepTimeout, intervals, timeouts>>
         ELSE calibratePosition(r, runs[r].i)
    /\ UNCHANGED <<isCalibrating, cancelRequested, calibrationComplete, currentStep,
                   samples, isRunning, isCalibrated, isFaceDetected, rawHeadData,
                   calibrationData>>

\* a tick of the sampling interval h, lines 279-281: Calibration._collectSample,
\* lines 302-325
collectSample(h) ==
    LET positionName == StepName(h[2]) IN
    /\ h \in intervals
    /\ ~isFaceDetected \/ Len(samples[positionName]) < MaxSamples
    /\ samples' = IF isFaceDetected
                    THEN [samples EXCEPT ![positionName] = Append(@, rawHeadData)]
                    ELSE samples
    /\ ret' = Called("_collectSample", isFaceDetected)
    /\ calls' = <<>>
    /\ lastTimer' = h
    /\ UNCHANGED <<isCalibrating, cancelRequested, calibrationComplete, currentStep,
                   sampleTimer, stepTimeout, runs, intervals, timeouts, isRunning,
                   isCalibrated, isFaceDetected, rawHeadData, calibrationData>>

\* mutant of stepTimeoutElapsed: the promise is resolved whatever was collected
stepTimeoutAlwaysResolves(h) ==
    LET r == h[1]
        i == h[2]
    IN
    /\ h \in timeouts
    /\ timeouts' = timeouts \ {h}
    /\ intervals' = intervals \ {sampleTimer}
    /\ sampleTimer' = NoTimer
    /\ lastTimer' = h
    /\ ret' = Called("_calibratePosition", TRUE)
    /\ calls' = <<>>
    /\ IF cancelRequested
         THEN /\ runs' = [runs EXCEPT ![r].pc = "returned"]
              /\ UNCHANGED <<currentStep, calibrationComplete>>
         ELSE IF i + 1 < Len(steps)
         THEN /\ currentStep' = i + 1
              /\ runs' = [runs EXCEPT ![r].pc = "wait", ![r].i = i + 1]
              /\ UNCHANGED calibrationComplete
         ELSE /\ calibrationComplete' = TRUE
              /\ runs' = [runs EXCEPT ![r].pc = "complete"]
              /\ UNCHANGED currentStep
    /\ UNCHANGED <<isCalibrating, cancelRequested, samples, stepTimeout, isRunning,
                   isCalibrated, isFaceDetected, rawHeadData, calibrationData>>

\* the step timeout h = <<r, i>> expires, lines 284-294, and
\* _runCalibrationSequence of run r goes on: to the catch, lines 253-263, when
\* the promise is rejected, else from line 240 to the next await or to its end
stepTimeoutElapsed(h) ==
    LET r == h[1]
        i == h[2]
        positionName == StepName(i)
    IN
    /\ h \in timeouts
    /\ timeouts' = timeouts \ {h}
    /\ intervals' = intervals \ {sampleTimer}
    /\ sampleTimer' = NoTimer
    /\ lastTimer' = h
    /\ IF Len(samples[positionName]) < minSamplesPerStep
         THEN /\ ret' = Called("_calibratePosition", FALSE)
              /\ calls' = <<Callback("onCalibrationFailed", positionName, r)>>
              /\ isCalibrating' = FALSE
              /\ runs' = [runs EXCEPT ![r].pc = "failed"]
              /\ UNCHANGED <<currentStep, calibrationComplete>>
         ELSE /\ ret' = Called("_calibratePosition", TRUE)
              /\ calls' = <<>>
              /\ UNCHANGED isCalibrating
              /\ IF cancelRequested
                   THEN /\ runs' = [runs EXCEPT ![r].pc = "returned"]
                        /\ UNCHANGED <<currentStep, calibrationComplete>>
                   ELSE IF i + 1 < Len(steps)
                   THEN /\ currentStep' = i + 1
                        /\ runs' = [runs EXCEPT ![r].pc = "wait", ![r].i = i + 1]
                        /\ UNCHANGED calibrationComplete
                   ELSE /\ calibrationComplete' = TRUE
                        /\ runs' = [runs EXCEPT ![r].pc = "complete"]
                        /\ UNCHANGED currentStep
    /\ UNCHANGED <<cancelRequested, samples, stepTimeout, isRunning, isCalibrated,
                   isFaceDetected, rawHeadData, calibrationData>>

\* Calibration._clearTimers, lines 508-518: the timers that stay live
clearTimers(timers, handle) == timers \ {handle}

\* Calibration.cancel, lines 135-143.  runs[r].cancelled records that cancel
\* was called while run r had not returned.
cancel ==
    /\ cancelRequested' = TRUE
    /\ isCalibrating' = FALSE
    /\ intervals' = clearTimers(intervals, sampleTimer)
    /\ timeouts' = clearTimers(timeouts, stepTimeout)
    /\ sampleTimer' = NoTimer
    /\ stepTimeout' = NoTimer
    /\ runs' = [r \in DOMAIN runs |->
                  [runs[r] EXCEPT !.cancelled = @ \/ Alive(r)]]
    /\ ret' = Called("cancel", \E r \in DOMAIN runs : Alive(r))
    /\ calls' = <<>>
    /\ lastTimer' = NoTimer
    /\ UNCHANGED <<calibrationComplete, currentStep, samples, isRunning,
                   isCalibrated, isFaceDetected, rawHeadData, calibrationData>>

\* Calibration.skipCalibration, lines 148-171: cancel, then the default profile
skipCalibration ==
    /\ cancelRequested' = TRUE
    /\ isCalibrating' = FALSE
    /\ intervals' = clearTimers(intervals, sampleTimer)
    /\ timeouts' = clearTimers(timeouts, stepTimeout)
    /\ sampleTimer' = NoTimer
    /\ stepTimeout' = NoTimer
    /\ runs' = [r \in DOMAIN runs |->
                  [runs[r] EXCEPT !.cancelled = @ \/ Alive(r)]]
    /\ calibrationData' = setCalibrationData(calibrationData, defaultCalibration)
    /\ isCalibrated' = TRUE
    /\ calls' = <<Callback("onCalibrationComplete", defaultCalibration, 0)>>
    /\ ret' = Called("skipCalibration", TRUE)
    /\ lastTimer' = NoTimer
    /\ UNCHANGED <<calibrationComplete, currentStep, samples, isRunning,
                   isFaceDetected, rawHeadData>>

\* Calibration.finishCalibration, lines 176-193.  It returns at once unless
\* calibrationComplete; with a pose that has no sample
\* _processCalibrationData throws (line 355 and on) and nothing is changed.
\* A run that was complete has its completion delivered: "finished".
finishCalibration ==
    /\ lastTimer' = NoTimer
    /\ IF ~calibrationComplete \/ Positions(samples) # DOMAIN samples
         THEN /\ ret' = Called("finishCalibration", FALSE)
              /\ calls' = <<>>
              /\ UNCHANGED <<isCalibrating, calibrationComplete, runs,
                             calibrationData, isCalibrated>>
         ELSE /\ ret' = Called("finishCalibration", TRUE)
              /\ calibrationData' = setCalibrationData(calibrationData,
                                                       processCalibrationData(samples))
              /\ isCalibrated' = TRUE
              /\ calls' = <<Callback("onCalibrationComplete",
                                     processCalibrationData(samples), 0)>>
              /\ isCalibrating' = FALSE
              /\ calibrationComplete' = FALSE
              /\ runs' = [r \in DOMAIN runs |->
                            [runs[r] EXCEPT !.pc = IF @ = "complete" THEN "finished"
                                                                     ELSE @]]
    /\ UNCHANGED <<cancelRequested, currentStep, samples, sampleTimer, stepTimeout,
                   intervals, timeouts, isRunning, isFaceDetected, rawHeadData>>

----------------------------------------------------------------------------
(* Specifications *)

Next ==
    \/ Advance(Times) /\ UNCHANGED <<calibrationVars, trackerVars, poseVars, appVars>>
    \/ startRecordingWithin(MaxTrackCounter) /\ UNCHANGED <<calibrationVars, trackerVars, poseVars, appVars>>
    \/ stopRecording /\ UNCHANGED <<calibrationVars, trackerVars, poseVars, appVars>>
    \/ recordEvent /\ UNCHANGED <<calibrationVars, trackerVars, poseVars, appVars>>
    \/ play /\ UNCHANGED <<calibrationVars, trackerVars, poseVars, appVars>>
    \/ animateNow /\ UNCHANGED <<calibrationVars, trackerVars, poseVars, appVars>>
    \/ stop /\ UNCHANGED <<calibrationVars, trackerVars, poseVars, appVars>>
    \/ clear /\ UNCHANGED <<calibrationVars, trackerVars, poseVars, appVars>>
    \/ toggleTrackMute /\ UNCHANGED <<calibrationVars, trackerVars, poseVars, appVars>>
    \/ deleteTrack /\ UNCHANGED <<calibrationVars, trackerVars, poseVars, appVars>>

Spec == Init /\ [][Next]_vars

NextRec ==
    \/ Advance(RecTimes) /\ UNCHANGED <<calibrationVars, trackerVars, poseVars, appVars>>
    \/ startRecordingWithin(MaxRecordings) /\ UNCHANGED <<calibrationVars, trackerVars, poseVars, appVars>>
    \/ stopRecording /\ UNCHANGED <<calibrationVars, trackerVars, poseVars, appVars>>
    \/ recordEvent /\ UNCHANGED <<calibrationVars, trackerVars, poseVars, appVars>>
    \/ setQuantization /\ UNCHANGED <<calibrationVars, trackerVars, poseVars, appVars>>
    \/ clear /\ UNCHANGED <<calibrationVars, trackerVars, poseVars, appVars>>

SpecRec == Init /\ [][NextRec]_vars

\* a loop of one track, recorded from instant 0 with the default quantization
InitPlay ==
    /\ \E raw \in PlayRawTimes, stopTime \in PlayStopTimes :
          /\ tracks = <<[id |-> 0,
                         events |-> [j \in DOMAIN raw |->
                                       LoopEvent(raw[j], 0, TRUE, defaultQuantizeResolution)],
                         duration |-> ClampDuration(stopTime),
                         muted |-> FALSE]>>
          /\ loopDuration = ClampDuration(stopTime)
          /\ clock = stopTime
    /\ currentTrack = NoTrack
    /\ isRecording = FALSE
    /\ isPlaying = FALSE
    /\ quantizeEnabled = TRUE
    /\ quantizeResolution = defaultQuantizeResolution
    /\ recordStartTime = 0
    /\ playbackStartTime = 0
    /\ lastAnimationTime = 0
    /\ animationFrameId = FALSE
    /\ trackCounter = 1
    /\ ret = Called("stopRecording", TRUE)
    /\ fired = {}
    /\ lastElapsed = NaN
    /\ cycle = 0
    /\ cycleFired = {}
    /\ cycleDup = {}
    /\ cycleMuted = {}
    /\ missed = {}
    /\ InitCalibration
    /\ InitPose

NextPlay ==
    \/ play /\ UNCHANGED <<calibrationVars, trackerVars, poseVars, appVars>>
    \/ animateAfter /\ UNCHANGED <<calibrationVars, trackerVars, poseVars, appVars>>
    \/ toggleTrackMute /\ UNCHANGED <<calibrationVars, trackerVars, poseVars, appVars>>

SpecPlay == InitPlay /\ [][NextPlay]_vars

\* the calibration and the head tracker, the looper idle
NextCal ==
    \/ start /\ UNCHANGED <<looperVars, cycleVars, clock, fired, poseVars, appVars>>
    \/ cancel /\ UNCHANGED <<looperVars, cycleVars, clock, fired, poseVars, appVars>>
    \/ skipCalibration /\ UNCHANGED <<looperVars, cycleVars, clock, fired, poseVars, appVars>>
    \/ finishCalibration /\ UNCHANGED <<looperVars, cycleVars, clock, fired, poseVars, appVars>>
    \/ handleResults /\ UNCHANGED <<looperVars, cycleVars, clock, fired, poseVars, appVars>>
    \/ faceLost /\ UNCHANGED <<looperVars, cycleVars, clock, fired, poseVars, appVars>>
    \/ \E r \in DOMAIN runs :
          \/ trackerStarted(r) /\ UNCHANGED <<looperVars, cycleVars, clock, fired, poseVars, appVars>>
          \/ trackerFailed(r) /\ UNCHANGED <<looperVars, cycleVars, clock, fired, poseVars, appVars>>
          \/ startDelayElapsed(r) /\ UNCHANGED <<looperVars, cycleVars, clock, fired, poseVars, appVars>>
          \/ waitElapsed(r) /\ UNCHANGED <<looperVars, cycleVars, clock, fired, poseVars, appVars>>
    \/ \E h \in intervals :
          collectSample(h) /\ UNCHANGED <<looperVars, cycleVars, clock, fired, poseVars, appVars>>
    \/ \E h \in timeouts :
          stepTimeoutElapsed(h) /\ UNCHANGED <<looperVars, cycleVars, clock, fired, poseVars, appVars>>

SpecCal == Init /\ [][NextCal]_vars

\* a timer that was set and is not cleared expires: the callback of a
\* setTimeout (lines 116, 284, 501) is run by the event loop
TimerFairness ==
    \A r \in 1..MaxRuns :
       /\ WF_vars(r \in DOMAIN runs /\ startDelayElapsed(r)
                    /\ UNCHANGED <<looperVars, cycleVars, clock, fired, poseVars, appVars>>)
       /\ WF_vars(r \in DOMAIN runs /\ waitElapsed(r)
                    /\ UNCHANGED <<looperVars, cycleVars, clock, fired, poseVars, appVars>>)
       /\ \A i \in 0..(Len(steps) - 1) :
             WF_vars(stepTimeoutElapsed(<<r, i>>)
                      /\ UNCHANGED <<looperVars, cycleVars, clock, fired, poseVars, appVars>>)

\* SpecCalFair: SpecCal with every pending timeout expiring
SpecCalFair == Init /\ [][NextCal]_vars /\ TimerFairness

\* start() with the tracker running, cancel() during the start delay, and
\* start() again: two runs wait for their start delays
InitRestart ==
    /\ InitLooper
    /\ InitPose
    /\ isCalibrating = TRUE
    /\ cancelRequested = FALSE
    /\ calibrationComplete = FALSE
    /\ currentStep = 0
    /\ samples = NoSamples
    /\ sampleTimer = NoTimer
    /\ stepTimeout = NoTimer
    /\ runs = <<[pc |-> "delay", i |-> 0, cancelled |-> TRUE],
                [pc |-> "delay", i |-> 0, cancelled |-> FALSE]>>
    /\ intervals = {}
    /\ timeouts = {}
    /\ calls = <<>>
    /\ lastTimer = NoTimer
    /\ isRunning = TRUE
    /\ isCalibrated = TRUE
    /\ isFaceDetected = TRUE
    /\ rawHeadData = HeadPath[1]
    /\ calibrationData = defaultCalibrationData
    /\ ret = Called("start", TRUE)

\* the number of timers of run r that have expired
Stage(r) ==
    CASE runs[r].pc = "delay" -> 0
      [] runs[r].pc = "wait" -> 2 * runs[r].i
      [] OTHER -> 2 * runs[r].i + 1

\* run r waits for a timer
Pending(r) ==
    \/ runs[r].pc \in {"delay", "wait"}
    \/ runs[r].pc = "sampling" /\ <<r, runs[r].i>> \in timeouts

\* The next timer of run r is the next timer to expire.  The second run was
\* started less than the start delay (1000 ms, line 118) after the first, each
\* timer of a run is set when its previous one expires, and every duration
\* (stepDuration 1500, line 28; pauseBetweenSteps 1000, line 29) is at least the
\* start delay: so the timers of the two runs expire in turn, the first run's
\* first.
InTurn(r) ==
    \A q \in DOMAIN runs \ {r} :
        Pending(q) => IF q < r THEN Stage(q) > Stage(r) ELSE Stage(q) >= Stage(r)

\* the timers of the two runs, the frames of the tracker, and the buttons
NextRestart ==
    \/ cancel /\ UNCHANGED <<looperVars, cycleVars, clock, fired, poseVars, appVars>>
    \/ finishCalibration /\ UNCHANGED <<looperVars, cycleVars, clock, fired, poseVars, appVars>>
    \/ handleResults /\ UNCHANGED <<looperVars, cycleVars, clock, fired, poseVars, appVars>>
    \/ faceLost /\ UNCHANGED <<looperVars, cycleVars, clock, fired, poseVars, appVars>>
    \/ \E r \in DOMAIN runs :
          /\ InTurn(r)
          /\ \/ startDelayElapsed(r)
             \/ waitElapsed(r)
          /\ UNCHANGED <<looperVars, cycleVars, clock, fired, poseVars, appVars>>
    \/ \E h \in intervals :
          collectSample(h) /\ UNCHANGED <<looperVars, cycleVars, clock, fired, poseVars, appVars>>
    \/ \E h \in timeouts :
          /\ InTurn(h[1])
          /\ stepTimeoutElapsed(h)
          /\ UNCHANGED <<looperVars, cycleVars, clock, fired, poseVars, appVars>>

SpecRestart == InitRestart /\ [][NextRestart]_vars

\* the samples of a window during which the head was held at pos
Held(pos) == [k \in 1..minSamplesPerStep |-> pos]

\* A run has sampled the seven poses, the head held still in each window: at
\* CenterPosition for "center", and a deviation away from it, on the axis of
\* the pose, for each extreme pose.
InitProfile ==
    /\ InitLooper
    /\ InitPose
    /\ \E dl, dr, du, dd, dtl, dtr \in Deviations :
          samples = [center |-> Held(CenterPosition),
                     up |-> Held([CenterPosition EXCEPT !.y = @ - du]),
                     down |-> Held([CenterPosition EXCEPT !.y = @ + dd]),
                     left |-> Held([CenterPosition EXCEPT !.x = @ - dl]),
                     right |-> Held([CenterPosition EXCEPT !.x = @ + dr]),
                     tiltLeft |-> Held([CenterPosition EXCEPT !.z = @ - dtl]),
                     tiltRight |-> Held([CenterPosition EXCEPT !.z = @ + dtr])]
    /\ isCalibrating = TRUE
    /\ cancelRequested = FALSE
    /\ calibrationComplete = TRUE
    /\ currentStep = Len(steps) - 1
    /\ sampleTimer = NoTimer
    /\ stepTimeout = <<1, Len(steps) - 1>>
    /\ runs = <<[pc |-> "complete", i |-> Len(steps) - 1, cancelled |-> FALSE]>>
    /\ intervals = {}
    /\ timeouts = {}
    /\ calls = <<>>
    /\ lastTimer = <<1, Len(steps) - 1>>
    /\ isRunning = TRUE
    /\ isCalibrated = TRUE
    /\ isFaceDetected = TRUE
    /\ rawHeadData = samples["tiltRight"][1]
    /\ calibrationData = defaultCalibrationData
    /\ ret = Called("_calibratePosition", TRUE)

\* the operations that install a profile
NextProfile ==
    \/ finishCalibration /\ UNCHANGED <<looperVars, cycleVars, clock, fired, poseVars, appVars>>
    \/ skipCalibration /\ UNCHANGED <<looperVars, cycleVars, clock, fired, poseVars, appVars>>
    \/ \E new \in Profiles :
          callSetCalibrationData(new) /\ UNCHANGED <<looperVars, cycleVars, clock, fired, poseVars, appVars>>

SpecProfile == InitProfile /\ [][NextProfile]_vars

----------------------------------------------------------------------------
(* The head tracker over its frames: HeadTracker of src/js/head-tracker.js *)

runVars == <<isCalibrating, cancelRequested, calibrationComplete, currentStep,
             samples, sampleTimer, stepTimeout, runs, intervals, timeouts>>

\* mutant of startTracking: the default profile is applied at every start
startTrackingAlwaysDefault ==
    /\ ret' = Called("HeadTracker.start", ~isRunning)
    /\ calls' = <<>>
    /\ lastTimer' = NoTimer
    /\ IF isRunning
       THEN UNCHANGED <<isRunning, isCalibrated, calibrationData>>
       ELSE /\ isRunning' = TRUE
            /\ isCalibrated' = TRUE
            /\ calibrationData' = defaultCalibrationData
    /\ UNCHANGED <<runVars, isFaceDetected, rawHeadData, poseVars, clock>>

\* HeadTracker.start, lines 345-397, the camera granted
startTracking ==
    /\ ret' = Called("HeadTracker.start", ~isRunning)
    /\ calls' = <<>>
    /\ lastTimer' = NoTimer
    /\ IF isRunning
       THEN UNCHANGED <<isRunning, isCalibrated, calibrationData>>
       ELSE /\ isRunning' = TRUE
            /\ isCalibrated' = TRUE
            /\ calibrationData' = IF isCalibrated THEN calibrationData
                                                  ELSE defaultCalibrationData
    /\ UNCHANGED <<runVars, isFaceDetected, rawHeadData, poseVars, clock>>

\* HeadTracker.stop, lines 402-431: the grace timer is cleared and its handle
\* stays in faceDetectedTimer
stopTracking ==
    /\ ret' = Called("HeadTracker.stop", isRunning)
    /\ lastTimer' = NoTimer
    /\ IF ~isRunning
       THEN /\ calls' = <<>>
            /\ UNCHANGED <<isRunning, isFaceDetected, faceDetectedTimer, lastFrame,
                           noFaceSince>>
       ELSE /\ faceDetectedTimer' = [faceDetectedTimer EXCEPT !.pending = FALSE]
            /\ isRunning' = FALSE
            /\ isFaceDetected' = FALSE
            /\ calls' = <<Callback("onTrackingStatus", FALSE, 0)>>
            /\ lastFrame' = "none"
            /\ noFaceSince' = -1
    /\ UNCHANGED <<runVars, isCalibrated, rawHeadData, calibrationData, lastHeadData,
                   lastNotifiedPosition, config, movementThreshold,
                   normalizedHeadData, frames, clock>>

\* HeadTracker._handleResults, lines 475-519, for a frame that shows a face
\* with the raw pose headData (faceDetected) or no face, with
\* _updateFaceDetectionStatus, lines 525-559, _smoothHeadData,
\* _applyCalibration and _hasMovedSignificantly
frame(faceDetected, headData) ==
    /\ frames' = frames + 1
    /\ lastTimer' = NoTimer
    /\ IF ~isRunning
       THEN /\ ret' = Called("_handleResults", FALSE)
            /\ calls' = <<>>
            /\ UNCHANGED <<isFaceDetected, rawHeadData, lastHeadData,
                           lastNotifiedPosition, faceDetectedTimer,
                           normalizedHeadData, lastFrame, noFaceSince>>
       ELSE LET regained == faceDetected /\ ~isFaceDetected
                smoothed == smoothHeadData(lastHeadData, headData,
                                           config.smoothingFactor)
                normalized == applyCalibration(smoothed, calibrationData, config)
                moved == /\ faceDetected
                         /\ hasMovedSignificantly(normalized, lastNotifiedPosition,
                                                  movementThreshold)
            IN  /\ ret' = Called("_handleResults", TRUE)
                /\ isFaceDetected' = (isFaceDetected \/ faceDetected)
                /\ faceDetectedTimer' =
                     IF regained THEN NoGrace
                     ELSE IF ~faceDetected /\ isFaceDetected
                             /\ faceDetectedTimer = NoGrace
                       THEN [due |-> clock + noFaceTimeout, pending |-> TRUE]
                       ELSE faceDetectedTimer
                /\ rawHeadData' = IF faceDetected THEN headData ELSE rawHeadData
                /\ lastHeadData' = IF faceDetected THEN smoothed ELSE lastHeadData
                /\ normalizedHeadData' = IF faceDetected THEN normalized
                                                         ELSE normalizedHeadData
                /\ lastNotifiedPosition' = IF moved THEN normalized
                                                    ELSE lastNotifiedPosition
                /\ calls' = (IF regained
                               THEN <<Callback("onTrackingStatus", TRUE, 0)>>
                               ELSE <<>>)
                            \o (IF moved
                                  THEN <<Callback("onHeadMove", normalized, 0)>>
                                  ELSE <<>>)
                /\ lastFrame' = IF faceDetected THEN "face" ELSE "noface"
                /\ noFaceSince' = IF faceDetected THEN -1
                                  ELSE IF noFaceSince = -1 THEN clock
                                  ELSE noFaceSince
    /\ UNCHANGED <<runVars, isRunning, isCalibrated, calibrationData, config,
                   movementThreshold, clock>>

\* the callback of the grace timer, lines 546-555, noFaceTimeout after
\* _updateFaceDetectionStatus has set it
graceElapsed ==
    /\ faceDetectedTimer.pending
    /\ clock >= faceDetectedTimer.due
    /\ isFaceDetected' = FALSE
    /\ calls' = <<Callback("onTrackingStatus", FALSE, 0)>>
    /\ faceDetectedTimer' = NoGrace
    /\ ret' = Called("faceDetectedTimer", TRUE)
    /\ lastTimer' = NoTimer
    /\ UNCHANGED <<runVars, isRunning, isCalibrated, rawHeadData, calibrationData,
                   lastHeadData, lastNotifiedPosition, config, movementThreshold,
                   normalizedHeadData, lastFrame, noFaceSince, frames, clock>>

\* TickInterval milliseconds pass; a timer that has expired runs first
tick ==
    /\ clock < MaxClock
    /\ ~(faceDetectedTimer.pending /\ clock >= faceDetectedTimer.due)
    /\ clock' = clock + TickInterval
    /\ ret' = Called("tick", TRUE)
    /\ calls' = <<>>
    /\ lastTimer' = NoTimer
    /\ UNCHANGED <<runVars, trackerVars, poseVars>>

\* a call of HeadTracker.setSensitivity, lines 318-332
callSetSensitivity(sensitivity) ==
    /\ config' = setSensitivity(config, sensitivity)
    /\ ret' = Called("setSensitivity", TRUE)
    /\ calls' = <<>>
    /\ lastTimer' = NoTimer
    /\ UNCHANGED <<runVars, trackerVars, lastHeadData, lastNotifiedPosition,
                   movementThreshold, faceDetectedTimer, normalizedHeadData,
                   lastFrame, noFaceSince, frames, clock>>

\* a call of HeadTracker.setSmoothingFactor, lines 338-340
callSetSmoothingFactor(factor) ==
    /\ config' = setSmoothingFactor(config, factor)
    /\ ret' = Called("setSmoothingFactor", TRUE)
    /\ calls' = <<>>
    /\ lastTimer' = NoTimer
    /\ UNCHANGED <<runVars, trackerVars, lastHeadData, lastNotifiedPosition,
                   movementThreshold, faceDetectedTimer, normalizedHeadData,
                   lastFrame, noFaceSince, frames, clock>>

\* a call of HeadTracker.setMovementThreshold, lines 736-738
callSetMovementThreshold(threshold) ==
    /\ movementThreshold' = setMovementThreshold(threshold)
    /\ ret' = Called("setMovementThreshold", TRUE)
    /\ calls' = <<>>
    /\ lastTimer' = NoTimer
    /\ UNCHANGED <<runVars, trackerVars, lastHeadData, lastNotifiedPosition,
                   config, faceDetectedTimer, normalizedHeadData, lastFrame,
                   noFaceSince, frames, clock>>

\* SpecPose: the configuration calls, then the pose pipeline over frames
\* that show a face
NextPose ==
    \/ startTracking /\ UNCHANGED <<looperVars, cycleVars, fired, appVars>>
    \/ \E headData \in RawPoses :
          /\ frames < MaxPoseFrames
          /\ frame(TRUE, headData)
          /\ UNCHANGED <<looperVars, cycleVars, fired, appVars>>
    \/ \E sensitivity \in SensitivityArgs :
          /\ frames = 0
          /\ callSetSensitivity(sensitivity)
          /\ UNCHANGED <<looperVars, cycleVars, fired, appVars>>
    \/ \E factor \in SmoothingArgs :
          /\ frames = 0
          /\ callSetSmoothingFactor(factor)
          /\ UNCHANGED <<looperVars, cycleVars, fired, appVars>>
    \/ \E threshold \in ThresholdArgs :
          /\ frames = 0
          /\ callSetMovementThreshold(threshold)
          /\ UNCHANGED <<looperVars, cycleVars, fired, appVars>>
    \/ \E new \in PoseProfiles :
          /\ frames = 0
          /\ callSetCalibrationData(new)
          /\ UNCHANGED <<looperVars, cycleVars, clock, fired, poseVars, appVars>>
    \/ /\ frames = 0
       /\ setQuantization
       /\ UNCHANGED <<calibrationVars, trackerVars, poseVars, appVars>>

SpecPose == Init /\ [][NextPose]_vars

\* SpecTrack: the tracker started and stopped, frames with and without a
\* face TickInterval apart or closer, and the grace timer
NextTrack ==
    \/ startTracking /\ UNCHANGED <<looperVars, cycleVars, fired, appVars>>
    \/ stopTracking /\ UNCHANGED <<looperVars, cycleVars, fired, appVars>>
    \/ \E faceDetected \in BOOLEAN, headData \in TrackPoses :
          /\ frames < MaxTrackFrames
          /\ frame(faceDetected, headData)
          /\ UNCHANGED <<looperVars, cycleVars, fired, appVars>>
    \/ graceElapsed /\ UNCHANGED <<looperVars, cycleVars, fired, appVars>>
    \/ tick /\ UNCHANGED <<looperVars, cycleVars, fired, appVars>>

SpecTrack == Init /\ [][NextTrack]_vars

\* SpecInstall: the tracker started and stopped, profiles installed, frames
NextInstall ==
    \/ startTracking /\ UNCHANGED <<looperVars, cycleVars, fired, appVars>>
    \/ stopTracking /\ UNCHANGED <<looperVars, cycleVars, fired, appVars>>
    \/ \E new \in PoseProfiles :
          callSetCalibrationData(new) /\ UNCHANGED <<looperVars, cycleVars, clock, fired, poseVars, appVars>>
    \/ \E headData \in TrackPoses :
          /\ frames < MaxInstallFrames
          /\ frame(TRUE, headData)
          /\ UNCHANGED <<looperVars, cycleVars, fired, appVars>>

SpecInstall == Init /\ [][NextInstall]_vars

\* a calibration started with the tracker stopped, the tracker started and
\* the start delay expired: the sampling window of the first pose is open
InitSample ==
    /\ InitLooper
    /\ InitPose
    /\ isCalibrating = TRUE
    /\ cancelRequested = FALSE
    /\ calibrationComplete = FALSE
    /\ currentStep = 0
    /\ samples = NoSamples
    /\ sampleTimer = <<1, 0>>
    /\ stepTimeout = <<1, 0>>
    /\ runs = <<[pc |-> "sampling", i |-> 0, cancelled |-> FALSE]>>
    /\ intervals = {<<1, 0>>}
    /\ timeouts = {<<1, 0>>}
    /\ calls = <<>>
    /\ lastTimer = NoTimer
    /\ isRunning = TRUE
    /\ isCalibrated = TRUE
    /\ isFaceDetected = FALSE
    /\ rawHeadData = Origin
    /\ calibrationData = defaultCalibrationData
    /\ ret = Called("_runCalibrationSequence", TRUE)

\* SpecSample: the frames of the tracker and the ticks of the sampling
\* interval during the sampling window of a pose
NextSample ==
    \/ \E faceDetected \in BOOLEAN, headData \in TrackPoses :
          /\ frames < MaxSampleFrames
          /\ frame(faceDetected, headData)
          /\ UNCHANGED <<looperVars, cycleVars, fired, appVars>>
    \/ graceElapsed /\ UNCHANGED <<looperVars, cycleVars, fired, appVars>>
    \/ tick /\ UNCHANGED <<looperVars, cycleVars, fired, appVars>>
    \/ \E h \in intervals :
          collectSample(h) /\ UNCHANGED <<looperVars, cycleVars, clock, fired, poseVars, appVars>>

SpecSample == InitSample /\ [][NextSample]_vars

----------------------------------------------------------------------------
(* The notes played from the head moves: main.js, src/unnamed/part_001 *)

\* mutant of notesPlayed: the note is played on every head move
notesPlayedAlways(noteIndex, currentNoteIndex) == <<noteIndex>>

\* "Play note if changed", part_001 lines 615-619, with the guard of
\* playNote, line 668, in a running application: the notes that
\* handleHeadMove passes to SynthEngine.playNote
notesPlayed(noteIndex, currentNoteIndex) ==
    IF noteIndex # currentNoteIndex /\ noteIndex >= 0 THEN <<noteIndex>> ELSE <<>>

\* handleHeadMove, part_001 lines 601-634, and the call of
\* Looper.recordEvent while the application records
handleHeadMove(headData) ==
    /\ ret' = [op |-> "handleHeadMove",
               ok |-> appState.isRunning /\ ~appState.isCalibrating,
               x |-> headData.x]
    /\ moves' = moves + 1
    /\ fired' = {}
    /\ IF ~appState.isRunning \/ appState.isCalibrating
       THEN /\ played' = <<>>
            /\ UNCHANGED <<appState, currentTrack>>
       ELSE LET noteIndex == mapHeadXToNoteIndex(headData.x, scales[currentScale])
            IN  /\ played' = notesPlayed(noteIndex, appState.currentNoteIndex)
                /\ appState' = [appState EXCEPT !.currentNoteIndex = noteIndex]
                /\ currentTrack' =
                     IF appState.isRecording /\ isRecording /\ currentTrack # NoTrack
                       THEN [currentTrack EXCEPT !.events =
                               Append(@, LoopEvent(clock, recordStartTime,
                                                   quantizeEnabled,
                                                   quantizeResolution))]
                       ELSE currentTrack
    /\ UNCHANGED <<tracks, isRecording, isPlaying, quantizeEnabled,
                   quantizeResolution, recordStartTime, loopDuration,
                   playbackStartTime, lastAnimationTime, animationFrameId,
                   trackCounter, clock, cycleVars, currentScale>>

\* changeScale, part_001 lines 701-711, with SynthEngine.setScale,
\* synth-engine.js lines 264-268
changeScale(scale) ==
    /\ currentScale' = IF scale \in DOMAIN scales THEN scale ELSE currentScale
    /\ ret' = Called("changeScale", TRUE)
    /\ fired' = {}
    /\ played' = <<>>
    /\ UNCHANGED <<appState, moves, looperVars, clock, cycleVars>>

\* the application started (startApplication, part_001 lines 450-490) or
\* not, calibrating or not, recording (toggleRecordLoop, lines 750-781, at
\* time 0) or not, and no note played yet
InitNotes ==
    /\ \E running, calibrating, recording \in BOOLEAN :
          /\ appState = [isRunning |-> running, isCalibrating |-> calibrating,
                         isRecording |-> recording, isPlaying |-> FALSE,
                         currentNoteIndex |-> -1]
          /\ isRunning = running
          /\ isCalibrated = running
          /\ calibrationData = IF running THEN defaultCalibrationData
                                          ELSE initialCalibrationData
          /\ isCalibrating = calibrating
          /\ isRecording = recording
          /\ currentTrack = IF recording
                              THEN [id |-> 0, events |-> <<>>, duration |-> 0,
                                    muted |-> FALSE]
                              ELSE NoTrack
          /\ trackCounter = IF recording THEN 1 ELSE 0
    /\ tracks = <<>>
    /\ isPlaying = FALSE
    /\ quantizeEnabled = TRUE
    /\ quantizeResolution = defaultQuantizeResolution
    /\ recordStartTime = 0
    /\ loopDuration = 0
    /\ playbackStartTime = 0
    /\ lastAnimationTime = 0
    /\ animationFrameId = FALSE
    /\ clock = 0
    /\ fired = {}
    /\ lastElapsed = NaN
    /\ cycle = 0
    /\ cycleFired = {}
    /\ cycleDup = {}
    /\ cycleMuted = {}
    /\ missed = {}
    /\ cancelRequested = FALSE
    /\ calibrationComplete = FALSE
    /\ currentStep = 0
    /\ samples = NoSamples
    /\ sampleTimer = NoTimer
    /\ stepTimeout = NoTimer
    /\ runs = <<>>
    /\ intervals = {}
    /\ timeouts = {}
    /\ calls = <<>>
    /\ lastTimer = NoTimer
    /\ isFaceDetected = FALSE
    /\ rawHeadData = Origin
    /\ lastHeadData = Origin
    /\ lastNotifiedPosition = Origin
    /\ config = initialConfig
    /\ movementThreshold = initialMovementThreshold
    /\ faceDetectedTimer = NoGrace
    /\ normalizedHeadData = Origin
    /\ lastFrame = "none"
    /\ noFaceSince = -1
    /\ frames = 0
    /\ currentScale = "major"
    /\ played = <<>>
    /\ moves = 0
    /\ ret = Called("init", TRUE)

\* SpecNotes: head-move notifications with a normalized x of HeadMoves, and
\* changes of the scale
NextNotes ==
    \/ \E x \in HeadMoves :
          /\ moves < MaxMoves
          /\ appState.isRecording => TotalEvents < MaxEvents
          /\ handleHeadMove([x |-> x, y |-> 0, z |-> 0])
          /\ UNCHANGED <<calibrationVars, trackerVars, poseVars>>
    \/ \E scale \in DOMAIN scales :
          /\ changeScale(scale)
          /\ UNCHANGED <<calibrationVars, trackerVars, poseVars>>

SpecNotes == InitNotes /\ [][NextNotes]_vars

----------------------------------------------------------------------------
(* The loop buttons of the main controller *)

\* toggleRecordLoop of main.js, part_001 lines 750-781
toggleRecordLoop ==
    /\ IF appState.isRecording
         THEN /\ stopRecording
              /\ appState' = [appState EXCEPT !.isRecording = FALSE]
         ELSE /\ startRecordingWithin(MaxAppRecordings)
              /\ appState' = [appState EXCEPT !.isRecording =
                                 ~(isRecording \/ Len(tracks) >= maxTracks)]
    /\ UNCHANGED <<currentScale, played, moves>>

\* playLoop of main.js, part_001 lines 783-802
playLoop ==
    /\ IF appState.isPlaying
         THEN /\ ret' = Called("playLoop", FALSE)
              /\ fired' = {}
              /\ UNCHANGED <<looperVars, clock, cycleVars, appState>>
         ELSE /\ play
              /\ appState' = [appState EXCEPT !.isPlaying =
                                 ~(isPlaying \/ Len(tracks) = 0)]
    /\ UNCHANGED <<currentScale, played, moves>>

\* stopLoop of main.js, part_001 lines 804-820
stopLoop ==
    /\ IF ~appState.isPlaying
         THEN /\ ret' = Called("stopLoop", FALSE)
              /\ fired' = {}
              /\ UNCHANGED <<looperVars, clock, cycleVars, appState>>
         ELSE /\ stop
              /\ appState' = [appState EXCEPT !.isPlaying = FALSE]
    /\ UNCHANGED <<currentScale, played, moves>>

\* clearLoop of main.js, part_001 lines 822-833: stopLoop() when playing, then
\* Looper.clear(), looper.js lines 284-310
clearLoop ==
    /\ ret' = Called("clearLoop", isRecording)
    /\ fired' = {}
    /\ appState' = [appState EXCEPT !.isPlaying = FALSE]
    /\ animationFrameId' = IF isPlaying THEN FALSE ELSE animationFrameId
    /\ isPlaying' = FALSE
    /\ isRecording' = FALSE
    /\ tracks' = <<>>
    /\ currentTrack' = NoTrack
    /\ loopDuration' = 0
    /\ UNCHANGED <<quantizeEnabled, quantizeResolution, recordStartTime,
                   playbackStartTime, lastAnimationTime, trackCounter, clock,
                   cycleVars, currentScale, played, moves>>

\* SpecApp: the record, play, stop and clear buttons, and the passing of time
NextApp ==
    \/ Advance(RecTimes) /\ UNCHANGED <<calibrationVars, trackerVars, poseVars, appVars>>
    \/ toggleRecordLoop /\ UNCHANGED <<calibrationVars, trackerVars, poseVars>>
    \/ playLoop /\ UNCHANGED <<calibrationVars, trackerVars, poseVars>>
    \/ stopLoop /\ UNCHANGED <<calibrationVars, trackerVars, poseVars>>
    \/ clearLoop /\ UNCHANGED <<calibrationVars, trackerVars, poseVars>>

SpecApp == Init /\ [][NextApp]_vars

----------------------------------------------------------------------------
(* The skip button of the calibration dialog *)

\* handleCalibrationComplete of main.js, part_001 lines 572-587, sets one
\* timeout of 500 ms that starts the application: the number of timeouts set
\* by the callbacks cs
startsScheduled(cs) ==
    Cardinality({k \in DOMAIN cs : cs[k].cb = "onCalibrationComplete"})

\* A click on skipCalibrationBtn.  The button has two click listeners, run in
\* the order they were added: that of the constructor of Calibration,
\* calibration.js lines 70-72, added at part_001 line 114, which calls
\* Calibration.skipCalibration, and skipCalibration of main.js, part_001
\* lines 554-562, added at line 367, which calls Calibration.skipCalibration
\* and then resets appState.isCalibrating.
skipClick ==
    LET installed == setCalibrationData(calibrationData, defaultCalibration)
        complete == Callback("onCalibrationComplete", defaultCalibration, 0)
    IN
    /\ cancelRequested' = TRUE
    /\ isCalibrating' = FALSE
    /\ intervals' = clearTimers(intervals, sampleTimer)
    /\ timeouts' = clearTimers(timeouts, stepTimeout)
    /\ sampleTimer' = NoTimer
    /\ stepTimeout' = NoTimer
    /\ runs' = [r \in DOMAIN runs |->
                  [runs[r] EXCEPT !.cancelled = @ \/ Alive(r)]]
    /\ calibrationData' = setCalibrationData(installed, defaultCalibration)
    /\ isCalibrated' = TRUE
    /\ calls' = <<complete, complete>>
    /\ appState' = [appState EXCEPT !.isCalibrating = FALSE]
    /\ ret' = Called("skipCalibrationBtn.click", TRUE)
    /\ lastTimer' = NoTimer
    /\ UNCHANGED <<calibrationComplete, currentStep, samples, isRunning,
                   isFaceDetected, rawHeadData, currentScale, played, moves>>

\* SpecSkip: a calibration run, the frames of the tracker and the skip button
NextSkip ==
    \/ start /\ UNCHANGED <<looperVars, cycleVars, clock, fired, poseVars, appVars>>
    \/ skipClick /\ UNCHANGED <<looperVars, cycleVars, clock, fired, poseVars>>
    \/ finishCalibration /\ UNCHANGED <<looperVars, cycleVars, clock, fired, poseVars, appVars>>
    \/ handleResults /\ UNCHANGED <<looperVars, cycleVars, clock, fired, poseVars, appVars>>
    \/ faceLost /\ UNCHANGED <<looperVars, cycleVars, clock, fired, poseVars, appVars>>
    \/ \E r \in DOMAIN runs :
          \/ trackerStarted(r) /\ UNCHANGED <<looperVars, cycleVars, clock, fired, poseVars, appVars>>
          \/ trackerFailed(r) /\ UNCHANGED <<looperVars, cycleVars, clock, fired, poseVars, appVars>>
          \/ startDelayElapsed(r) /\ UNCHANGED <<looperVars, cycleVars, clock, fired, poseVars, appVars>>
          \/ waitElapsed(r) /\ UNCHANGED <<looperVars, cycleVars, clock, fired, poseVars, appVars>>
    \/ \E h \in intervals :
          collectSample(h) /\ UNCHANGED <<looperVars, cycleVars, clock, fired, poseVars, appVars>>
    \/ \E h \in timeouts :
          stepTimeoutElapsed(h) /\ UNCHANGED <<looperVars, cycleVars, clock, fired, poseVars, appVars>>

SpecSkip == Init /\ [][NextSkip]_vars

----------------------------------------------------------------------------
(* Properties of the loop scheduler, checked under SpecPlay *)

\* C1: during playback each recorded event of an unmuted track is passed to
\* the event callback at most once per loop traversal, whatever the tick
\* intervals.
C1_AtMostOncePerTraversal == cycleDup = {}

\* C2: every recorded event of every unmuted track is fired at least once in
\* each full loop traversal: when a traversal ends, every event of a track
\* that was unmuted throughout it has been fired in it, or is fired by the
\* tick that ends it.
C2_NoEventMissed == missed = {}

\* the events of unmuted tracks recorded within the early window of the loop end
NearLoopEnd ==
    {k \in UnmutedKeys(tracks, {}) :
        \E i \in DOMAIN tracks :
            /\ tracks[i].id = k[1]
            /\ tracks[i].events[k[2]].time >= loopDuration - earlyWindow}

\* the last step was a tick whose elapsed time is within the late window of zero
TickAtLoopStart ==
    /\ ret.op = "animate"
    /\ lastElapsed # NaN
    /\ lastElapsed <= lateWindow

\* C3 as stated: on every tick where elapsed is within the late window of
\* zero, every event of an unmuted track whose time is within the early
\* window of the loop end is fired.
C3_WrapFiredOnEveryTick == TickAtLoopStart => NearLoopEnd \subseteq fired

\* C3 as amended: on every tick that processes events (deltaTime >=
\* quantizeResolution or elapsed < quantizeResolution) and where elapsed is
\* within the late window of zero, every event of an unmuted track whose time
\* is within the early window of the loop end is fired.
C3_WrapFiredOnProcessedTick == (TickAtLoopStart /\ ret.ok) => NearLoopEnd \subseteq fired

\* the cursor has wrapped to the start and an event of the loop end was fired
C3_Witness ==
    /\ TickAtLoopStart
    /\ ret.ok
    /\ cycle >= 1
    /\ NearLoopEnd # {}
    /\ NearLoopEnd \subseteq fired

----------------------------------------------------------------------------
(* Properties of the loop recorder, checked under Spec *)

\* C4: at most one track is in the Recording state: isRecording is true
\* exactly when currentTrack is non-null, and the track being recorded is not
\* in the LoopSet.
C4_OneRecording ==
    /\ isRecording <=> currentTrack # NoTrack
    /\ currentTrack.id \notin TrackIds(tracks)
    /\ \A i, j \in DOMAIN tracks : tracks[i].id = tracks[j].id => i = j

\* a track is being recorded during playback of recorded tracks
C4_Witness == isRecording /\ isPlaying /\ Len(tracks) >= 2

\* C5: startRecording() returns false and leaves tracks, currentTrack,
\* recordStartTime, isRecording and the track counter unchanged when a track
\* is already Recording or tracks.length has reached maxTracks; otherwise it
\* returns true and enters Recording with a new, empty track.
C5_StartRecordingFailsOrStarts ==
    [][ret'.op = "startRecording" =>
         IF isRecording \/ Len(tracks) >= maxTracks
         THEN /\ ~ret'.ok
              /\ UNCHANGED <<tracks, currentTrack, recordStartTime, isRecording,
                             trackCounter>>
         ELSE /\ ret'.ok
              /\ isRecording'
              /\ currentTrack' # NoTrack
              /\ currentTrack'.events = <<>>
              /\ recordStartTime' = clock
              /\ tracks' = tracks]_vars

\* startRecording() has failed at capacity
C5_Witness ==
    /\ ret = Called("startRecording", FALSE)
    /\ Len(tracks) = maxTracks
    /\ ~isRecording

\* C6: the number of tracks in the LoopSet never exceeds maxTracks.
C6_AtMostMaxTracks == Len(tracks) <= maxTracks

\* stopRecording() has appended the track that fills the LoopSet
C6_Witness == ret = Called("stopRecording", TRUE) /\ Len(tracks) = maxTracks

\* C10: recordEvent(evt) called while no track is Recording changes nothing:
\* the LoopSet, every stored event, currentTrack, loopDuration and the playback
\* state are as before, and nothing is fired.
C10_RecordEventNoOp ==
    [][(ret'.op = "recordEvent" /\ ~isRecording) =>
         /\ ~ret'.ok
         /\ fired' = {}
         /\ UNCHANGED looperVars]_vars

\* recordEvent was called with recorded tracks playing and no recording
C10_Witness ==
    /\ ret = Called("recordEvent", FALSE)
    /\ ~isRecording
    /\ isPlaying
    /\ tracks # <<>>

----------------------------------------------------------------------------
(* Properties of the loop recorder, checked under SpecRec *)

\* C7: stopRecording() stores on the new track the measured length of the
\* recording clamped to [minimumLoopDuration, maximumLoopDuration]: 1000 ms
\* is stored as 2000, 25000 ms as 20000, a length inside the range is kept;
\* the recording is appended whatever its length.
C7_DurationClamped ==
    [][(ret'.op = "stopRecording" /\ isRecording) =>
         LET measured == clock - recordStartTime
             stored == tracks'[Len(tracks')]
         IN  /\ ret'.ok
             /\ Len(tracks') = Len(tracks) + 1
             /\ stored.id = currentTrack.id
             /\ stored.events = currentTrack.events
             /\ measured < 2000 => stored.duration = 2000
             /\ measured > 20000 => stored.duration = 20000
             /\ (measured >= 2000 /\ measured <= 20000) => stored.duration = measured
             /\ measured = 1000 => stored.duration = 2000
             /\ measured = 25000 => stored.duration = 20000]_vars

\* a recording of 1000 ms has been stored with duration 2000
C7_Witness ==
    /\ ret = Called("stopRecording", TRUE)
    /\ clock - recordStartTime = 1000
    /\ tracks[Len(tracks)].duration = 2000

\* C8: every event stored in every track of the LoopSet has a time offset
\* inside [0, track.duration].
C8_EventsInsideDuration ==
    \A i \in DOMAIN tracks : \A j \in DOMAIN tracks[i].events :
        /\ tracks[i].events[j].time >= 0
        /\ tracks[i].events[j].time <= tracks[i].duration

\* the time offsets of the events the looper holds, in the LoopSet and in
\* the track being recorded
StoredTimes ==
    UNION {{tracks[i].events[j].time : j \in DOMAIN tracks[i].events} : i \in DOMAIN tracks}
    \cup {currentTrack.events[j].time : j \in DOMAIN currentTrack.events}

\* C9 as stated: the time offset of every stored loop event is an exact
\* multiple of the quantization resolution currently configured.
C9_MultipleOfCurrentResolution == \A t \in StoredTimes : t % quantizeResolution = 0

\* C9 as amended: an event that recordEvent stores while quantization is
\* enabled gets a time offset that is an exact multiple of the resolution
\* configured at that moment, at most half a resolution away from the measured
\* offset; an event stored while quantization is disabled keeps the measured
\* offset; setQuantization changes no stored event.
C9_MultipleOfResolutionWhenStored ==
    [][/\ (ret'.op = "recordEvent" /\ ret'.ok) =>
            LET measured == clock - recordStartTime
                stored == currentTrack'.events[Len(currentTrack'.events)]
            IN  /\ Len(currentTrack'.events) = Len(currentTrack.events) + 1
                /\ quantizeEnabled =>
                      /\ stored.time % quantizeResolution = 0
                      /\ 2 * (stored.time - measured) <= quantizeResolution
                      /\ 2 * (measured - stored.time) <= quantizeResolution
                /\ ~quantizeEnabled => stored.time = measured
       /\ ret'.op = "setQuantization" => UNCHANGED <<tracks, currentTrack>>]_vars

\* an event has been stored at an offset that rounding to a resolution of 3 changed
C9_Witness ==
    /\ ret = Called("recordEvent", TRUE)
    /\ quantizeEnabled
    /\ quantizeResolution = 3
    /\ currentTrack.events # <<>>
    /\ currentTrack.events[Len(currentTrack.events)].time # clock - recordStartTime
    /\ currentTrack.events[Len(currentTrack.events)].time % 3 = 0

----------------------------------------------------------------------------
(* Properties of stop, clear and mute *)

\* C11: stop() halts the scheduler and preserves the recorded tracks: the
\* track list, with each track's events, duration and mute flag, and
\* loopDuration are as before stop(), and from stop() on no loop event is
\* fired until play() succeeds.
C11_StopHaltsAndPreserves ==
    [][/\ ret'.op = "stop" =>
            /\ UNCHANGED <<tracks, loopDuration, currentTrack, isRecording>>
            /\ ~isPlaying'
            /\ ~animationFrameId'
       /\ (~isPlaying /\ ~(ret'.op = "play" /\ ret'.ok)) =>
            /\ fired' = {}
            /\ ~isPlaying']_vars

\* stop() has halted the playback of a loop that holds an event
C11_Witness ==
    /\ ret = Called("stop", TRUE)
    /\ EventKeys(tracks) # {}
    /\ ~isPlaying

\* C12: clear() ends with isPlaying false, isRecording false, currentTrack
\* null, an empty LoopSet and loopDuration 0, in whatever state it is called;
\* the track of a recording in progress is not retained.
C12_ClearResets ==
    ret.op = "clear" =>
        /\ ~isPlaying
        /\ ~animationFrameId
        /\ ~isRecording
        /\ currentTrack = NoTrack
        /\ tracks = <<>>
        /\ loopDuration = 0

\* clear() was called during playback with a recording in progress
C12_Witness == ret = Called("clear", TRUE) /\ tracks = <<>>

\* C13: no event of a track is fired on a tick during which the track is
\* muted, and on a tick that processes events every due event of an unmuted
\* track is fired, also when the track was muted on an earlier tick.
C13_MutedTracksSilent ==
    ret.op = "animate" =>
        LET elapsedTime == ElapsedTime(clock, playbackStartTime, loopDuration) IN
        \A i \in DOMAIN tracks : \A j \in DOMAIN tracks[i].events :
            LET time == tracks[i].events[j].time IN
            /\ tracks[i].muted => <<tracks[i].id, j>> \notin fired
            /\ ( /\ ~tracks[i].muted
                 /\ ret.ok
                 /\ \/ (time >= elapsedTime - 15 /\ time <= elapsedTime + 15)
                    \/ (time >= loopDuration - 15 /\ elapsedTime <= 15) )
               => <<tracks[i].id, j>> \in fired

\* an event is fired of a track that was muted on an earlier tick of this traversal
C13_Witness ==
    /\ ret.op = "animate"
    /\ \E k \in fired : k[1] \in cycleMuted

----------------------------------------------------------------------------
(* Properties of the calibration run *)

\* run r is inside the sampling window of step i: it awaits the promise of
\* _calibratePosition, lines 236-240, and the step timeout is pending
InWindow(r, i) ==
    /\ runs[r].pc = "sampling"
    /\ runs[r].i = i
    /\ <<r, i>> \in timeouts

\* C14: a sample of a pose is stored only by a tick inside the sampling window
\* of that pose of the run that set the interval, and a run opens the window
\* of step i + 1 only after the step timeout of its step i has expired.
C14_SampledInsideWindow ==
    [][/\ (ret'.op = "_collectSample" /\ ret'.ok) =>
              InWindow(lastTimer'[1], lastTimer'[2])
       /\ \A r \in DOMAIN runs :
              (r \in DOMAIN runs' /\ runs'[r].pc = "sampling" /\ runs[r].pc # "sampling") =>
                  /\ runs'[r].i = runs[r].i
                  /\ runs[r].pc \in {"delay", "wait"}
                  /\ \A j \in 0..(Len(steps) - 1) : <<r, j>> \notin timeouts]_vars

\* the step timeout that expired in the last step found no sample of its pose
ExpiredEmpty ==
    /\ ret.op = "_calibratePosition"
    /\ samples[StepName(lastTimer[2])] = <<>>

\* C15: when a step timeout expires and no sample of its pose was collected,
\* the run fails: the step invokes the failure callback once, with the name of
\* the pose, and no other callback, and it leaves the profile, the samples and
\* calibrationComplete as they were; a failed run takes no further step, sets
\* no timer and has no interval of a later pose, so it samples none of the
\* remaining poses and never becomes complete.
C15_ZeroSamplesFail ==
    [][/\ ExpiredEmpty' =>
              /\ calls' = <<Callback("onCalibrationFailed", StepName(lastTimer'[2]),
                                     lastTimer'[1])>>
              /\ runs'[lastTimer'[1]].pc = "failed"
              /\ ~isCalibrating'
              /\ UNCHANGED <<calibrationData, calibrationComplete, samples>>
       /\ \A r \in DOMAIN runs :
              runs[r].pc = "failed" =>
                  /\ runs'[r] = runs[r]
                  /\ \A j \in 0..(Len(steps) - 1) :
                         /\ <<r, j>> \in (intervals' \cup timeouts') =>
                                <<r, j>> \in (intervals \cup timeouts)
                         /\ j > runs[r].i => <<r, j>> \notin intervals]_vars

\* a run has failed at a pose after the first, with no sample of that pose
C15_Witness ==
    /\ ExpiredEmpty
    /\ lastTimer[2] > 0
    /\ calls = <<Callback("onCalibrationFailed", StepName(lastTimer[2]), lastTimer[1])>>

\* the step timeout that expired in the last step found samples of its pose,
\* but fewer than minSamplesPerStep
ExpiredPartial ==
    /\ ret.op = "_calibratePosition"
    /\ Len(samples[StepName(lastTimer[2])]) \in 1..(minSamplesPerStep - 1)

\* C16: when a step timeout expires and at least one sample of its pose, but
\* fewer than minSamplesPerStep, was collected, the run does not fail: the step
\* invokes no callback and the run goes on to its next pose (or, after the last
\* pose, is complete).
C16_PartialDataProceeds ==
    [][(ExpiredPartial' /\ ~cancelRequested) =>
           /\ calls' = <<>>
           /\ runs'[lastTimer'[1]].pc \in {"wait", "complete"}]_vars

\* the step delivers the completion of run r: finishCalibration installs the
\* profile computed from the samples and invokes the completion callback
CompletionDelivered(r) ==
    /\ runs[r].pc = "complete"
    /\ runs'[r].pc = "finished"

\* C17: once cancel() was called during a run (runs[r].cancelled), no step
\* invokes the failure callback for that run or delivers its completion, and
\* the step of cancel() leaves the tracker running and the profile as it was.
C17_CancelledRunSilent ==
    [][/\ \A r \in DOMAIN runs :
              runs[r].cancelled =>
                  /\ \A k \in DOMAIN calls' : calls'[k].run # r
                  /\ ~CompletionDelivered(r)
       /\ ret'.op = "cancel" =>
              /\ calls' = <<>>
              /\ UNCHANGED <<isRunning, calibrationData>>]_vars

\* C18: a run during which cancel() was called stores no further sample, and
\* when cancel() returns no sampling interval and no step timeout is live.
C18_NoSampleAfterCancel ==
    [][/\ (ret'.op = "_collectSample" /\ ret'.ok) => ~runs[lastTimer'[1]].cancelled
       /\ ret'.op = "cancel" => (intervals' = {} /\ timeouts' = {})]_vars

----------------------------------------------------------------------------
(* Properties of the calibration profile, checked under SpecProfile *)

\* C19: the three ranges of the active profile are at least epsilon (0.05),
\* whatever the centroids it was computed from (the extremes equal to the center
\* included) and whatever profile was passed to setCalibrationData.
C19_RangesAtLeastEpsilon ==
    /\ calibrationData.rangeX >= epsilon
    /\ calibrationData.rangeY >= epsilon
    /\ calibrationData.rangeZ >= epsilon

\* the profile computed from seven equal centroids has been installed
C19_Witness ==
    /\ ret = Called("finishCalibration", TRUE)
    /\ \A p \in DOMAIN samples : Centroid(samples[p]) = Centroid(samples["center"])
    /\ calibrationData.rangeX = epsilon
    /\ calibrationData.rangeY = epsilon
    /\ calibrationData.rangeZ = epsilon

\* the range of an axis: twice the larger distance of the two extreme centroids
\* from the center, and at least epsilon
RangeOf(extreme1, extreme2, center) ==
    Max(epsilon, Max(Abs(extreme1 - center), Abs(extreme2 - center)) * 2)

\* C20: the profile that finishCalibration installs has the centroid of
\* "center" as its center and, per axis, the range RangeOf the two extreme
\* centroids: left and right for X, up and down for Y, tiltLeft and tiltRight
\* for Z.  With center x 0.5, left x 0.3 and right x 0.7, rangeX is 0.4.
C20_ProfileFromCentroids ==
    ret = Called("finishCalibration", TRUE) =>
        LET c(p) == Centroid(samples[p]) IN
        /\ calibrationData.centerX = c("center").x
        /\ calibrationData.centerY = c("center").y
        /\ calibrationData.centerZ = c("center").z
        /\ calibrationData.rangeX = RangeOf(c("left").x, c("right").x, c("center").x)
        /\ calibrationData.rangeY = RangeOf(c("up").y, c("down").y, c("center").y)
        /\ calibrationData.rangeZ = RangeOf(c("tiltLeft").z, c("tiltRight").z,
                                            c("center").z)
        /\ (c("center").x = 500000 /\ c("left").x = 300000 /\ c("right").x = 700000)
               => calibrationData.rangeX = 400000

\* the profile for center x 0.5, left x 0.3, right x 0.7 has been installed
C20_Witness ==
    /\ ret = Called("finishCalibration", TRUE)
    /\ Centroid(samples["center"]).x = 500000
    /\ Centroid(samples["left"]).x = 300000
    /\ Centroid(samples["right"]).x = 700000
    /\ calibrationData.rangeX = 400000
    /\ calibrationData.rangeY = epsilon


----------------------------------------------------------------------------
(* Properties of the pose pipeline, checked under SpecPose *)

\* the head-move notifications of the last step
HeadMovesOf(cs) == {i \in DOMAIN cs : cs[i].cb = "onHeadMove"}

\* C21: for every smoothed pose, every active profile and every sensitivity
\* setting, each of x, y and z of the normalized pose delivered to
\* onHeadMove lies in [-1, 1].
C21_NormalizedWithinUnit ==
    /\ \A i \in HeadMovesOf(calls) :
          \A a \in Axes : calls[i].arg[a] >= -Unit /\ calls[i].arg[a] <= Unit
    /\ \A a \in Axes : normalizedHeadData[a] >= -Unit /\ normalizedHeadData[a] <= Unit

\* a pose was delivered whose x would have been beyond 1 without the clamp
C21_Witness ==
    /\ \E i \in HeadMovesOf(calls) : calls[i].arg.x = Unit
    /\ Quotient(lastHeadData.x, calibrationData.centerX, calibrationData.rangeX)
         * config.sensitivityX * 100 > Unit

\* the fields of the profile and of the configuration that belong to an axis
CenterOf(a) == calibrationData[[x |-> "centerX", y |-> "centerY", z |-> "centerZ"][a]]
RangeOfAxis(a) == calibrationData[[x |-> "rangeX", y |-> "rangeY", z |-> "rangeZ"][a]]
SensitivityOf(a) ==
    config[[x |-> "sensitivityX", y |-> "sensitivityY", z |-> "sensitivityZ"][a]]

\* the last step was a frame with a face, handled by the running tracker
FaceFrame == ret.op = "_handleResults" /\ ret.ok /\ lastFrame = "face"

\* C22: before clamping each normalized axis equals
\* ((smoothed.axis - profile.centerAxis) / profile.rangeAxis) *
\* sensitivityAxis * 2, so that a smoothed pose at center + range/2 maps to 1
\* at sensitivity 1.
C22_TwiceTheQuotient ==
    FaceFrame =>
      \A a \in Axes :
         normalizedHeadData[a] =
           Clamp(-Unit, Unit,
                 Quotient(lastHeadData[a], CenterOf(a), RangeOfAxis(a))
                   * SensitivityOf(a) * 100 * 2)

\* C23: the first sample of a fresh tracker initializes the smoothed pose
\* directly (no ramp-up from zero); for every later sample the smoothed pose
\* is a * previous + (1 - a) * raw, a the smoothing factor.
C23_FirstSampleInitializes ==
    [][(ret'.op = "_handleResults" /\ ret'.ok) =>
         lastHeadData' =
           IF lastFrame = "none"
             THEN rawHeadData'
             ELSE [a \in Axes |->
                     Trunc(config.smoothingFactor * lastHeadData[a]
                             + (100 - config.smoothingFactor) * rawHeadData'[a],
                           100)]]_vars

\* C24: onHeadMove is invoked for a frame only when at least one axis of the
\* newly normalized pose differs from the last emitted pose by more than the
\* movement threshold, and the last emitted pose is updated only on such a
\* frame (to the pose emitted); frames within the threshold of the last
\* emitted pose produce no notification, and no other step emits a pose.
C24_GatedByThreshold ==
    [][LET beyond == \E a \in Axes :
                        Abs(normalizedHeadData'[a] - lastNotifiedPosition[a])
                          > movementThreshold
           emitted == HeadMovesOf(calls')
       IN  IF ret'.op = "_handleResults" /\ ret'.ok /\ beyond
             THEN /\ Cardinality(emitted) = 1
                  /\ \A i \in emitted : calls'[i].arg = normalizedHeadData'
                  /\ lastNotifiedPosition' = normalizedHeadData'
             ELSE /\ emitted = {}
                  /\ lastNotifiedPosition' = lastNotifiedPosition]_vars

\* a frame moved the normalized pose away from the last emitted pose, by no
\* more than the threshold, and nothing was emitted
C24_Witness ==
    /\ FaceFrame
    /\ HeadMovesOf(calls) = {}
    /\ normalizedHeadData # lastNotifiedPosition
    /\ lastNotifiedPosition # Origin


----------------------------------------------------------------------------
(* Properties of the face-loss grace timer, checked under SpecTrack *)

\* C25: if the pose source reports no detection and then a detection again
\* before the grace period (1000 ms) has elapsed, the grace timer is
\* cancelled silently: no tracking-lost notification is delivered for that
\* gap, neither at once nor when the original grace period would have
\* expired, and no tracking-regained notification follows.  So the grace
\* timer never reports tracking lost after a frame that showed a face, and
\* none is pending after such a frame.
C25_RedetectionCancelsTimer ==
    [][/\ ret'.op = "faceDetectedTimer" => lastFrame # "face"
       /\ lastFrame' = "face" => ~faceDetectedTimer'.pending]_vars

\* C26: whenever the tracker is running with tracking reported active and
\* the pose source then reports no detection continuously for the whole
\* grace period, tracking lost is reported exactly once when the grace
\* period elapses and not earlier, also after the tracker was stopped during
\* a pending grace timer and started again.  So while the frames show no
\* face the grace timer reports tracking lost noFaceTimeout after they began
\* to show none, once, and leaves no timer behind.
C26_LostAfterWholeGracePeriod ==
    [][(ret'.op = "faceDetectedTimer" /\ noFaceSince # -1) =>
          /\ clock - noFaceSince >= noFaceTimeout
          /\ calls' = <<Callback("onTrackingStatus", FALSE, 0)>>
          /\ ~faceDetectedTimer'.pending]_vars


----------------------------------------------------------------------------
(* Properties of the note mapping of main.js, checked under SpecNotes *)

\* the last step was a head move handled by the running application
HeadMoveHandled == ret.op = "handleHeadMove" /\ ret.ok

\* C27: for a normalized x in [-1, 1] and a scale of N notes the note index
\* is clamp(floor(((x + 1) / 2) * N), 0, N - 1): the index i of the N-th part
\* of [-1, 1) that holds x, and N - 1 for x = 1; with N = 7, x = -1.0 gives
\* 0, x = 0.999 gives 6 and x = 1.0 is clamped to 6.
C27_IndexOfTheInterval ==
    HeadMoveHandled =>
      LET N == scales[currentScale]
          i == appState.currentNoteIndex
      IN  /\ i >= 0 /\ i <= N - 1
          /\ ret.x < Unit =>
                /\ i * 2 * Unit <= (ret.x + Unit) * N
                /\ (ret.x + Unit) * N < (i + 1) * 2 * Unit
          /\ ret.x = Unit => i = N - 1
          /\ (N = 7 /\ ret.x = -Unit) => i = 0
          /\ (N = 7 /\ ret.x = 999000) => i = 6
          /\ (N = 7 /\ ret.x = Unit) => i = 6

\* x = 1.0 on the scale of seven notes: the index 7 of the floor is clamped
C27_Witness ==
    /\ HeadMoveHandled
    /\ ret.x = Unit
    /\ scales[currentScale] = 7
    /\ appState.currentNoteIndex = 6

\* C28: a live note is triggered by a head-move notification only when the
\* mapped note index differs from the previously reported index; head moves
\* that all map to the same index trigger the note at most once.
C28_NoteOnIndexChange ==
    [][ret'.op = "handleHeadMove" =>
         /\ played' # <<>> =>
               /\ played' = <<appState'.currentNoteIndex>>
               /\ appState'.currentNoteIndex # appState.currentNoteIndex
         /\ appState'.currentNoteIndex = appState.currentNoteIndex => played' = <<>>]_vars

\* a head move that maps to the index of the move before it: no note
C28_Witness ==
    /\ HeadMoveHandled
    /\ moves >= 2
    /\ appState.currentNoteIndex >= 0
    /\ played = <<>>


----------------------------------------------------------------------------
(* The configuration, checked under SpecPose *)

\* C29: after any sequence of configuration calls with arbitrary arguments
\* every stored option stays in its documented range: the smoothing factor in
\* [0, 0.95], the movement threshold in [0.001, 0.1], each per-axis
\* sensitivity in [0.5, 2.0] and the quantization resolution Q >= 1 ms.
C29_OptionsInRange ==
    /\ config.smoothingFactor >= 0 /\ config.smoothingFactor <= 95
    /\ movementThreshold >= 1000 /\ movementThreshold <= 100000
    /\ \A a \in Axes : SensitivityOf(a) >= 5 /\ SensitivityOf(a) <= 20
    /\ quantizeResolution >= 1

----------------------------------------------------------------------------
(* Stored tracks, checked under Spec *)

----------------------------------------------------------------------------
(* Properties of the calibration samples, checked under SpecSample *)

\* C31: every sample stored for a calibration pose is the smoothed pose
\* current at the sampling tick (the exponentially filtered value), not the
\* unfiltered raw pose of the last frame, and a sample is stored only on a
\* tick at which a face is being tracked.
C31_SamplesAreSmoothed ==
    [][\A p \in DOMAIN samples :
          samples'[p] # samples[p] =>
             /\ ret'.op = "_collectSample"
             /\ isFaceDetected
             /\ samples'[p] = Append(samples[p], lastHeadData)]_vars


----------------------------------------------------------------------------
(* Properties of the completion of a calibration *)

\* the run begun by the last call of start that began one has sampled the
\* seven poses and its completion has not been delivered
CurrentRunComplete == runs # <<>> /\ runs[Len(runs)].pc = "complete"

\* C32: a profile computed from the samples is installed, and the completion
\* callback invoked with it, only after the sampling windows of all seven
\* poses have completed in the current run; finishCalibration called earlier,
\* or after a failed run, changes neither the profile nor invokes a callback.
C32_FinishOnlyWhenComplete ==
    [][(ret'.op = "finishCalibration" /\ ~CurrentRunComplete) =>
          /\ calibrationData' = calibrationData
          /\ isCalibrated' = isCalibrated
          /\ calls' = <<>>]_vars


\* run r is past the start of the tracker and has not ended
Underway(r) ==
    Len(runs) >= r /\ runs[r].pc \in {"delay", "wait", "sampling"}

\* run r has ended ready for completion or failed, or was cancelled
Ended(r) ==
    /\ Len(runs) >= r
    /\ \/ runs[r].cancelled
       \/ runs[r].pc = "complete" /\ calibrationComplete
       \/ runs[r].pc = "failed" /\ ~isCalibrating

\* C33: a calibration run started with the tracker available and never
\* cancelled eventually ends, after at most one start delay, seven sampling
\* windows and six pauses: ready for completion (calibrationComplete true) or
\* failed (isCalibrating false); it never stays forever in a sampling window
\* or a pause.
C33_RunEnds ==
    /\ [](\A r \in DOMAIN runs : Stage(r) <= 2 * Len(steps) - 1)
    /\ \A r \in 1..MaxRuns : Underway(r) ~> Ended(r)

C33_Witness ==
    /\ runs # <<>>
    /\ runs[1].pc = "complete"
    /\ ~runs[1].cancelled
    /\ calibrationComplete
    /\ Stage(1) = 2 * Len(steps) - 1


\* C34: at most one calibration sequence is active.  After cancel() followed
\* by start(), the cancelled run performs no further step: when its pending
\* timer expires it only returns, it sets neither currentStep nor a sampling
\* interval, and no tick of an interval of its own appends a sample.
C34_CancelledRunStops ==
    [][\A r \in DOMAIN runs :
          runs[r].cancelled =>
             /\ (/\ ret'.op \in {"_runCalibrationSequence", "_wait", "_calibratePosition"}
                 /\ runs'[r] # runs[r]) =>
                    /\ runs'[r].pc = "returned"
                    /\ currentStep' = currentStep
                    /\ intervals' \subseteq intervals
             /\ (ret'.op = "_collectSample" /\ lastTimer'[1] = r) =>
                    samples' = samples]_vars


----------------------------------------------------------------------------
(* Properties of the shared loop, checked under Spec *)

\* C35: whenever the looper is playing, loopDuration is greater than 0 and
\* the set of tracks is not empty, so that the cursor
\* (now - playbackStartTime) mod loopDuration is defined; this holds after
\* any interleaving of play with delete-track, clear and recording.
C35_PlayingHasLoop ==
    isPlaying => (loopDuration > 0 /\ tracks # <<>>)


\* C36: with the shared loop length every event of every track can be reached
\* by the cursor: in every state with a track, the time of each stored event
\* is at most the loopDuration of the looper, also after a shorter track was
\* recorded following a longer one and after the track recorded last was
\* deleted.
C36_EventsWithinLoop ==
    tracks # <<>> =>
        \A t \in DOMAIN tracks :
            \A j \in DOMAIN tracks[t].events :
                tracks[t].events[j].time <= loopDuration


\* C37: while a track is being recorded during playback none of its events
\* is fired by the scheduler: a tick fires events of stored tracks only, and
\* the events of the recording become eligible only after stopRecording has
\* added the track.
C37_RecordingNotFired ==
    ret.op = "animate" =>
        /\ fired \subseteq EventKeys(tracks)
        /\ isRecording => \A k \in fired : k[1] # currentTrack.id

\* a tick that processes events during a recording one of whose events is due
C37_Witness ==
    /\ ret = Called("animate", TRUE)
    /\ isPlaying
    /\ isRecording
    /\ \E j \in DOMAIN currentTrack.events :
          IsDue(currentTrack.events[j].time,
                ElapsedTime(clock, playbackStartTime, loopDuration), loopDuration)


----------------------------------------------------------------------------
(* Properties of the loop buttons, checked under SpecApp *)

\* C38: appState.isRecording always agrees with the looper: after any
\* sequence of record-toggle, play, stop and clear through the main
\* controller it is true exactly when the looper has a track being recorded,
\* so that one press of the record button after a clear starts a new
\* recording (after a clear there is capacity).
C38_RecordingFlagAgrees ==
    /\ [](appState.isRecording <=> (isRecording /\ currentTrack # NoTrack))
    /\ [][(ret.op = "clearLoop" /\ ret'.op \in {"startRecording", "stopRecording"}) =>
             (isRecording' /\ appState'.isRecording)]_vars


----------------------------------------------------------------------------
(* Properties of the active profile, checked under SpecInstall *)

\* C39: the active profile changes only through setCalibrationData; once a
\* profile is installed a later stop() or start() leaves it unchanged, and
\* start() applies the built-in default only when no profile was installed
\* before.
C39_ProfileKeptAcrossRestart ==
    [][/\ calibrationData' # calibrationData =>
             \/ ret'.op = "setCalibrationData"
             \/ /\ ret' = Called("HeadTracker.start", TRUE)
                /\ ~isCalibrated
                /\ calibrationData' = defaultCalibrationData
       /\ isCalibrated => isCalibrated'
       /\ ret'.op = "setCalibrationData" => isCalibrated']_vars

\* the tracker is started again with an installed profile that is not the default
C39_Witness ==
    /\ ret = Called("HeadTracker.start", TRUE)
    /\ lastHeadData # Origin
    /\ calibrationData \notin {defaultCalibrationData, initialCalibrationData}


----------------------------------------------------------------------------
(* Properties of the skip button, checked under SpecSkip *)

\* C40: one click on the skip button cancels any running calibration,
\* installs the fixed default profile (center 0.5, 0.5, 0; ranges 0.2, 0.2,
\* 0.15) and invokes the completion callback exactly once, so that the start
\* of the application that follows completion is scheduled once.
C40_SkipCompletesOnce ==
    [][ret'.op = "skipCalibrationBtn.click" =>
          /\ ~isCalibrating'
          /\ cancelRequested'
          /\ intervals' \subseteq intervals \ {sampleTimer}
          /\ timeouts' \subseteq timeouts \ {stepTimeout}
          /\ calibrationData' = defaultCalibration
          /\ calls' = <<Callback("onCalibrationComplete", defaultCalibration, 0)>>
          /\ startsScheduled(calls') = 1]_vars

============================================================================
